---- MODULE Spec2Model ----
(***************************************************************************)
(* Conversational query-orchestration pipeline of the multi-tenant        *)
(* retail analyst: the streaming ask handler (pages/api/chat/ask.js), the  *)
(* conversation bootstrap, the classifier, the context readers, the       *)
(* tenant-scoped SQL executor with its read-only guard, and the           *)
(* persistence steps, as one state machine.                                *)
(*                                                                         *)
(* SQL text is a sequence of one-character strings, so that the guard's   *)
(* whitespace normalisation, case folding and substring tests are         *)
(* computed character by character as the JavaScript does.                *)
(***************************************************************************)
EXTENDS Integers, Sequences, FiniteSets, TLC

\* ------------------------------------------------------------------------
\* Bounds of the model
\* ------------------------------------------------------------------------

\* statements of the executor specification: a head and up to MaxTails tails
MaxTails == 2

\* ------------------------------------------------------------------------
\* Characters and strings
\* ------------------------------------------------------------------------

LowerChars ==
  <<"a","b","c","d","e","f","g","h","i","j","k","l","m",
    "n","o","p","q","r","s","t","u","v","w","x","y","z">>

UpperChars ==
  <<"A","B","C","D","E","F","G","H","I","J","K","L","M",
    "N","O","P","Q","R","S","T","U","V","W","X","Y","Z">>

\* one character of String.prototype.toUpperCase
UpperChar(c) ==
  IF \E i \in 1..26 : LowerChars[i] = c
    THEN UpperChars[CHOOSE i \in 1..26 : LowerChars[i] = c]
    ELSE c

toUpperCase(s) == [i \in 1..Len(s) |-> UpperChar(s[i])]

\* the characters the regular expression \s matches, among those used here
IsSpace(c) == c \in {" ", "\t", "\n"}

\* s.replace(/\s+/g, " "): every maximal run of whitespace becomes one blank
RECURSIVE collapseFrom(_, _)
collapseFrom(s, i) ==
  IF i > Len(s) THEN <<>>
  ELSE IF IsSpace(s[i])
    THEN IF i > 1 /\ IsSpace(s[i - 1])
           THEN collapseFrom(s, i + 1)
           ELSE <<" ">> \o collapseFrom(s, i + 1)
    ELSE <<s[i]>> \o collapseFrom(s, i + 1)

collapseSpaces(s) == collapseFrom(s, 1)

\* String.prototype.trim: from the first to the last character that is not
\* whitespace
trim(s) ==
  LET kept == { i \in 1..Len(s) : ~IsSpace(s[i]) }
  IN  IF kept = {} THEN <<>>
      ELSE SubSeq(s, CHOOSE a \in kept : \A i \in kept : a <= i,
                     CHOOSE b \in kept : \A i \in kept : i <= b)

startsWith(s, p) == Len(s) >= Len(p) /\ SubSeq(s, 1, Len(p)) = p

includes(s, p) ==
  \E i \in 1..(Len(s) - Len(p) + 1) : SubSeq(s, i, i + Len(p) - 1) = p

KwSelect == <<"S","E","L","E","C","T"," ">>
KwUnion == <<" ","U","N","I","O","N"," ">>
KwLimit == <<" ","L","I","M","I","T"," ">>
KwDashes == <<"-","-">>
KwOpen == <<"/","*">>
KwClose == <<"*","/">>

\* ------------------------------------------------------------------------
\* Scoped SQL executor: read-only guard and scope enforcement
\* ------------------------------------------------------------------------

normalize(sql) == trim(collapseSpaces(sql))

\* the code of the error assertReadOnly throws, "OK" when it returns, for
\* s = normalize(sql).toUpperCase()
readOnlyCode(s) ==
  IF ~startsWith(s, KwSelect) THEN "SQL_NOT_READ_ONLY"
  ELSE IF includes(s, KwDashes) \/ includes(s, KwOpen) \/ includes(s, KwClose)
    THEN "SQL_COMMENTS_NOT_ALLOWED"
  ELSE IF includes(s, KwUnion) THEN "SQL_UNION_NOT_ALLOWED"
  ELSE IF ~includes(s, KwLimit) THEN "SQL_LIMIT_REQUIRED"
  ELSE "OK"

\* assertReadOnly: const s = normalize(sql).toUpperCase(), each stage of it
\* (whitespace collapsed, trimmed, upper case) computed once
assertReadOnly(sql) ==
  CHOOSE code \in
    { readOnlyCode(s) :
        s \in { toUpperCase(t) :
                 t \in { trim(c) : c \in {collapseSpaces(sql)} } } } : TRUE

\* the message of the error thrown under each code
guardMessage(code) ==
  CASE code = "SQL_NOT_READ_ONLY" -> "Only SELECT queries are allowed"
    [] code = "SQL_COMMENTS_NOT_ALLOWED" -> "SQL comments are not allowed"
    [] code = "SQL_UNION_NOT_ALLOWED" -> "UNION queries are not allowed"
    [] code = "SQL_LIMIT_REQUIRED" -> "LIMIT clause is required"
    [] OTHER -> ""

WrapHead ==
  <<"\n"," "," "," "," ","S","E","L","E","C","T"," ","*","\n"," "," "," "," ",
    "F","R","O","M"," ","(","\n"," "," "," "," "," "," ">>
WrapMid ==
  <<"\n"," "," "," "," ",")"," ","A","S"," ","s","c","o","p","e","d","_",
    "r","e","s","u","l","t","\n"," "," "," "," ","W","H","E","R","E"," ","(">>
WrapTail == <<")","\n"," "," ">>

\* the statement a scope filter splices with AND instead of wrapping
enforceScopeSpliced(sql, scopeFilter) ==
  IF scopeFilter = <<>> THEN sql
  ELSE sql \o <<" ","A","N","D"," ","(">> \o scopeFilter \o <<")">>

enforceScope(sql, scopeFilter) ==
  IF scopeFilter = <<>> THEN sql
  ELSE WrapHead \o sql \o WrapMid \o scopeFilter \o WrapTail

\* what the tenant database does: db.query returns rows, db.query throws, or
\* getDataDbConnectionForTenant throws before any query
DbOutcomes == {"rows", "throw", "noConnection"}
DbErrorMessage == "ER_NO_SUCH_TABLE"
DbConnectMessage == "ECONNREFUSED"

\* rows in a result set
RowsReturned == 2

\* no call made yet
Pending ==
  [threw |-> FALSE, code |-> "PENDING", message |-> "", sent |-> <<>>, rows |-> 0]

\* runTenantScopedQuery with the query made before the statement is examined
runTenantScopedQueryUnguarded(scopeFilter, sql, dbOutcome) ==
  LET code == assertReadOnly(sql)
      scopedSql == enforceScope(sql, scopeFilter)
  IN  IF dbOutcome = "noConnection"
        THEN [threw |-> TRUE, code |-> "DB_ERROR", message |-> DbConnectMessage,
              sent |-> <<>>, rows |-> 0]
      ELSE IF dbOutcome = "throw"
        THEN [threw |-> TRUE, code |-> "DB_ERROR", message |-> DbErrorMessage,
              sent |-> scopedSql, rows |-> 0]
      ELSE IF code # "OK"
        THEN [threw |-> TRUE, code |-> code, message |-> guardMessage(code),
              sent |-> scopedSql, rows |-> 0]
      ELSE [threw |-> FALSE, code |-> "OK", message |-> "",
            sent |-> scopedSql, rows |-> RowsReturned]

\* runTenantScopedQuery(tenant, sql), given what the tenant database answers:
\* threw, the error's code and message, the statement handed to db.query
\* (empty when none was) and the number of rows.
runTenantScopedQuery(scopeFilter, sql, dbOutcome) ==
  LET code == assertReadOnly(sql)
      scopedSql == enforceScope(sql, scopeFilter)
  IN  IF code # "OK"
        THEN [threw |-> TRUE, code |-> code, message |-> guardMessage(code),
              sent |-> <<>>, rows |-> 0]
      ELSE IF dbOutcome = "noConnection"
        THEN [threw |-> TRUE, code |-> "DB_ERROR", message |-> DbConnectMessage,
              sent |-> <<>>, rows |-> 0]
      ELSE IF dbOutcome = "throw"
        THEN [threw |-> TRUE, code |-> "DB_ERROR", message |-> DbErrorMessage,
              sent |-> scopedSql, rows |-> 0]
      ELSE [threw |-> FALSE, code |-> "OK", message |-> "",
            sent |-> scopedSql, rows |-> RowsReturned]

\* ------------------------------------------------------------------------
\* Statements given to the executor
\* ------------------------------------------------------------------------

SqlSelectAll ==
  <<"s","e","l","e","c","t"," ","*"," ","f","r","o","m"," ","t">>
SqlSelectUpper ==
  <<"S","E","L","E","C","T"," ","*"," ","F","R","O","M"," ","t">>
SqlSelectMixed ==
  <<"S","e","L","e","C","t"," ","a","\t","F","R","O","M"," ","t">>
SqlDropTable ==
  <<"d","r","o","p"," ","t","a","b","l","e"," ","t">>
FragWhereOr ==
  <<"w","h","e","r","e"," ","a"," ","="," ","1"," ","O","R"," ","1","=","1">>
FragUnionSpaced ==
  <<"u","n","i","o","n"," ","s","e","l","e","c","t"," ","b"," ","f","r","o","m"," ","u">>
FragUnionParen ==
  <<"U","N","I","O","N","(","s","e","l","e","c","t"," ","b"," ","f","r","o","m"," ","u",")">>
FragLimitLower ==
  <<"l","i","m","i","t"," ","1","0">>
FragLimitMixed ==
  <<"L","i","M","i","T"," ","5">>
FragDashComment ==
  <<"-","-"," ","x">>
FragBlockOpen ==
  <<"/","*"," ","x">>
FragBlockClose ==
  <<"x"," ","*","/">>
FragLimitStacked ==
  <<"L","I","M","I","T"," ","1","0",";"," ","D","R","O","P"," ","T","A","B","L","E"," ","t">>

\* how a statement begins
Heads == { SqlSelectAll, SqlSelectUpper, SqlSelectMixed, SqlDropTable }

\* what may follow
Tails ==
  { FragWhereOr, FragUnionSpaced, FragUnionParen, FragLimitLower, FragLimitMixed,
    FragDashComment, FragBlockOpen, FragBlockClose, FragLimitStacked }

\* whitespace between two pieces
Seps == { <<" ">>, <<"\n","\t">> }

\* whitespace before the first piece
LeadSeps == { <<>>, <<"\n"," ">> }

RECURSIVE joinTails(_, _)
joinTails(ts, i) ==
  IF i > Len(ts) THEN <<>>
  ELSE ts[i].sep \o ts[i].piece \o joinTails(ts, i + 1)

TailSeqs ==
  UNION { [1..n -> [sep : Seps, piece : Tails]] : n \in 0..MaxTails }

ScopeTenant5 ==
  <<"t","e","n","a","n","t","_","i","d"," ","="," ","5">>

ScopeFilters == { <<>>, ScopeTenant5 }

\* the statements the translator's model call returns in the ask pipeline
SqlGood ==
  <<"s","e","l","e","c","t"," ","*"," ","f","r","o","m"," ","t"," ",
    "l","i","m","i","t"," ","1","0">>
SqlNoLimit ==
  <<"S","E","L","E","C","T"," ","*"," ","F","R","O","M"," ",
    "s","e","c","r","e","t","s">>

\* the character U+0060, which a string of this language cannot hold
Backquote == "U+0060"

\* the first of them as the model often writes it, in a fenced block
SqlFenced ==
  <<Backquote, Backquote, Backquote, "S","q","l","\n">> \o SqlGood
    \o <<"\n", Backquote, Backquote, Backquote, "\n">>

TranslatorReplies == { SqlGood, SqlNoLimit, SqlFenced }

RECURSIVE removeAllFrom(_, _, _)
removeAllFrom(s, i, p) ==
  IF i > Len(s) THEN <<>>
  ELSE IF /\ i + Len(p) - 1 <= Len(s)
          /\ toUpperCase(SubSeq(s, i, i + Len(p) - 1)) = toUpperCase(p)
    THEN removeAllFrom(s, i + Len(p), p)
    ELSE <<s[i]>> \o removeAllFrom(s, i + 1, p)

\* s.replace(/p/gi, ""), p a literal; on a p without letters it is
\* s.replace(/p/g, "")
removeAll(s, p) == removeAllFrom(s, 1, p)

\* convertToSQL, from the model's reply to the statement: the reply trimmed,
\* the code fences taken out, trimmed again; the trimmed reply when nothing
\* is left
convertToSQL(content) ==
  LET raw == trim(content)
      sql == trim(removeAll(removeAll(raw, <<Backquote, Backquote, Backquote,
                                             "s","q","l">>),
                            <<Backquote, Backquote, Backquote>>))
  IN  IF sql = <<>> THEN raw ELSE sql

\* ------------------------------------------------------------------------
\* Tenants, users and the rows the pipeline only reads
\* ------------------------------------------------------------------------

\* tenants table: tenant 1 has a row-level scope filter, tenant 2 has none,
\* tenant 3 is not active
TenantRows ==
  { [id |-> 1, is_active |-> 1, scope_filter |-> ScopeTenant5],
    [id |-> 2, is_active |-> 1, scope_filter |-> <<>>],
    [id |-> 3, is_active |-> 0, scope_filter |-> <<>>] }

\* user_tenants table: user 1 belongs to tenants 1, 2 and 3, user 2 to tenant 2
UserTenants == { <<1, 1>>, <<1, 2>>, <<1, 3>>, <<2, 2>> }

\* the decoded tokens requireAuth lets through (req.user)
Principals ==
  { [userId |-> 1, tenantId |-> 1, role |-> "USER"],
    [userId |-> 1, tenantId |-> 2, role |-> "USER"],
    [userId |-> 2, tenantId |-> 2, role |-> "USER"],
    [userId |-> 2, tenantId |-> 1, role |-> "USER"],
    [userId |-> 1, tenantId |-> 3, role |-> "USER"] }

\* user_long_term_memory table, written by the rebuild job: one row per
\* (user, tenant)
UserLongTermMemory ==
  { [id |-> 1, user_id |-> 1, tenant_id |-> 1, updated_at |-> 2],
    [id |-> 2, user_id |-> 1, tenant_id |-> 2, updated_at |-> 1],
    [id |-> 3, user_id |-> 2, tenant_id |-> 2, updated_at |-> 3] }

\* req.body.question when it is a string
Questions == { <<" ", "\t", " ">>, <<" ","s","a","l","e","s","?">> }

\* the Authorization header of a request: left out, a bearer token that
\* verifyToken refuses or that lacks userId, email or tenantSlug, a bearer
\* token that decodes to a user
Authorizations == {"none", "Bearer invalid", "Bearer valid"}

\* req.user before requireAuth sets it (undefined)
NoUser == [userId |-> 0, tenantId |-> 0, role |-> ""]

\* req.body as parsed from the JSON text of the request: null, an object
\* without a question, an object whose question is a string
Bodies ==
  { [json |-> "null", typeofQuestion |-> "undefined", question |-> <<>>],
    [json |-> "object", typeofQuestion |-> "undefined", question |-> <<>>] }
  \cup { [json |-> "object", typeofQuestion |-> "string", question |-> q] : q \in Questions }

\* a validation that lets every question through
isBlankNever(question) == FALSE

\* question.trim() === ""
isBlank(question) == trim(question) = <<>>


SUMMARY_MESSAGE_INTERVAL == 12
MIN_MESSAGES_FOR_SUMMARY == 2

\* asks handled in one run of the model
MaxAsks == 1

VARIABLES
  qSql,     \* the statement given to runTenantScopedQuery
  qScope,   \* tenant.scope_filter
  qOut,     \* what runTenantScopedQuery did, Pending before the call
  upd,      \* a call of applySummaryUsageUpdate: its arguments, where it is
  rag,     \* a turn's retrieval from the vector store: where it is, what it got
  tbl,     \* a call of buildTable: its arguments, what it returned
  sdb,     \* getDataDbSchema's module: sqlDbPromise, the turns calling it
  qa,      \* a call of extractLastQAPairs: the messages, the pairs returned
  cv,      \* asks running at once on one conversation: where each is, what it read
  chartCall, \* a call of buildAreaChart: the result set, the metric key, the chart
  conversations,  \* core tables: the row with id i is element i
  messages,
  sql_queries,
  token_usage,
  query_logs,
  pc,        \* where the handler is
  req,       \* the request being handled
  loc,       \* the handler's local variables
  stream,    \* the response: the events written and res.writableEnded
  asks,      \* asks started so far; the number of the current ask
  llmCalls,  \* llm.invoke calls made in the current ask
  llmUsage,  \* tokens those calls reported (usage_metadata), summed
  dbSent,    \* statements handed to the tenant database in the current ask
  reads      \* rows of the core tables the current ask has read

fvars == <<rag, tbl, sdb, qa, cv, chartCall>>
\* the variables of the other parts, for a part that is followed on its own
notRag == <<qSql, qScope, qOut, upd, tbl, sdb, qa, cv, chartCall>>
notTbl == <<qSql, qScope, qOut, upd, rag, sdb, qa, cv, chartCall>>
notSdb == <<qSql, qScope, qOut, upd, rag, tbl, qa, cv, chartCall>>
notQa == <<qSql, qScope, qOut, upd, rag, tbl, sdb, cv, chartCall>>
notCv == <<qSql, qScope, qOut, upd, rag, tbl, sdb, qa, chartCall>>
notChartCall == <<qSql, qScope, qOut, upd, rag, tbl, sdb, qa, cv>>
qvars == <<qSql, qScope, qOut, upd, fvars>>
dbvars == <<conversations, messages, sql_queries, token_usage, query_logs>>
hvars == <<pc, req, loc, stream, asks, llmCalls, llmUsage, dbSent, reads>>
vars == <<qvars, dbvars, hvars>>

NoRequest ==
  [method |-> "", authorization |-> "", user |-> NoUser,
   body |-> "", typeofQuestion |-> "", conversationId |-> 0, question |-> <<>>]

NoExec ==
  [sql |-> <<>>, rowCount |-> 0, status |-> "", errorMessage |-> ""]

\* tokens a model call reports in usage_metadata when it returns
TokensPerCall == 1

\* JavaScript's null
Null == "null"

\* what buildAreaChart returns, which the handler puts whole at the chart of
\* the answerPayload: its chart, or null for it, beside the usage
areaChartResult(made) ==
  IF made THEN "{chart, usage}" ELSE "{chart: null, usage}"

\* answer_payload of a message that has none (a user message), and the
\* answerPayload: null that applySummaryUsageUpdate returns without usage
NoPayload == [status |-> "", tokens |-> 0, rowCount |-> 0, chart |-> Null]

\* a non-data answerPayload marked as a completed data answer
nonDataPayloadComplete(usage) ==
  [status |-> "complete", tokens |-> usage, rowCount |-> 0, chart |-> Null]

\* handleNonData's answerPayload: status non_data, an empty table, no
\* downloads, chart null, meta.tokens from the usage it is given
nonDataPayload(usage) ==
  [status |-> "non_data", tokens |-> usage, rowCount |-> 0, chart |-> Null]

\* buildAnswerPayload: status complete, the table, the chart, meta.tokens
\* from the usage it is given
buildAnswerPayload(usage, rowCount, chart) ==
  [status |-> "complete", tokens |-> usage, rowCount |-> rowCount, chart |-> chart]

\* no outcome of the classifier's model call is held
NoCall == [threw |-> FALSE, text |-> <<>>]

NoLocals ==
  [accessGranted |-> FALSE, tenantFound |-> FALSE,
   convId |-> 0, userMessageId |-> 0, classifierCall |-> NoCall,
   isDataRequest |-> TRUE,
   sql |-> <<>>, exec |-> NoExec, sqlQueryId |-> 0,
   usage |-> 0, answerPayload |-> NoPayload,
   persistedMessageId |-> 0, messages |-> <<>>]

NoStream == [events |-> <<>>, ended |-> FALSE]

\* no retrieval is going on
NoRag ==
  [pc |-> "none", useRag |-> "", requested |-> FALSE, calls |-> 0,
   thrown |-> Null, retrievedDocs |-> <<>>, ragError |-> Null,
   meta |-> [requested |-> FALSE, used |-> FALSE, error |-> Null,
             sourceCount |-> 0, sources |-> <<>>]]

\* buildTable is not being called
NoTable ==
  [pc |-> "none", rows |-> <<>>, maxRows |-> 0, csvThreshold |-> 0,
   table |-> [rows |-> <<>>, rowCount |-> 0, truncated |-> FALSE],
   downloads |-> 0]

\* sqlDbPromise when it is null
NoSqlDb ==
  [made |-> FALSE, database |-> "", includesTables |-> <<>>, rejected |-> FALSE]

\* getDataDbSchema's module as loaded: let sqlDbPromise = null, no call yet
NoSchemaCalls == [sqlDbPromise |-> NoSqlDb, started |-> 0, turns |-> <<>>]

\* extractLastQAPairs is not being called
NoPairsCall == [pc |-> "none", messages |-> <<>>, pairs |-> <<>>]

\* no asks are followed side by side
NoTurns == [convId |-> 0, started |-> 0, turns |-> <<>>]

\* chart: null
NoChart == [made |-> FALSE, xKey |-> <<>>, yKey |-> <<>>, data |-> <<>>]

\* the model was not asked for the metric
NoAiReply == [kind |-> "none", metricKey |-> <<>>]

\* buildAreaChart is not being called
NoChartCall ==
  [pc |-> "none", columns |-> <<>>, rows |-> <<>>, dateKey |-> <<>>,
   numericCandidates |-> <<>>, aiCalls |-> 0, reply |-> NoAiReply,
   aiMetricKey |-> <<>>,
   metricKey |-> <<>>, chart |-> NoChart]

\* applySummaryUsageUpdate is not being called
NoUpdate ==
  [pc |-> "none", summaryUsage |-> 0, totalUsage |-> 0, rowCount |-> 0,
   chart |-> Null, messageId |-> 0, tenantId |-> 0, tokenUsageId |-> 0,
   messages |-> <<>>, answerPayload |-> NoPayload]

\* ------------------------------------------------------------------------
\* Server-sent events (createSse)
\* ------------------------------------------------------------------------

StatusEvent(p) == [event |-> "status", code |-> "", progress |-> p]
ProgressEvent(p) == [event |-> "progress", code |-> "", progress |-> p]

clampPercent(n) == IF n < 0 THEN 0 ELSE IF n > 100 THEN 100 ELSE n

\* emitStatus that reports what is left to do instead of what is done
emitStatusRemaining(s, progress) ==
  [s EXCEPT !.events =
     @ \o <<StatusEvent(clampPercent(100 - progress)),
            ProgressEvent(clampPercent(100 - progress))>>]

\* emitStatus(message, progress): a status event, then a progress event
emitStatus(s, progress) ==
  [s EXCEPT !.events =
     @ \o <<StatusEvent(clampPercent(progress)),
            ProgressEvent(clampPercent(progress))>>]

\* closeWith(event, payload, statusCode): the event, then res.end()
closeWith(s, event, code) ==
  [events |-> Append(s.events, [event |-> event, code |-> code, progress |-> 0]),
   ended |-> TRUE]

\* an error that is dropped: nothing is written, the response stays open
streamErrorSilent(s, code) == s

\* streamError(res, status, code, message): one error event, res.end()
streamError(s, code) == closeWith(s, "error", code)

\* res.status(401).json(..): the response is ended with a JSON body, no
\* event is written
jsonResponse(s) == [s EXCEPT !.ended = TRUE]

\* ------------------------------------------------------------------------
\* Reads of the core tables
\* ------------------------------------------------------------------------

Ids(table) == [i \in 1..Len(table) |-> i]

\* SELECT id FROM conversations WHERE id = ? (owner not compared)
selectConversationByIdOnly(convId, userId, tenantId) ==
  { i \in 1..Len(conversations) : i = convId }

\* SELECT id FROM conversations WHERE id = ? AND user_id = ? AND tenant_id = ?
selectOwnedConversation(convId, userId, tenantId) ==
  { i \in 1..Len(conversations) :
      /\ i = convId
      /\ conversations[i].user_id = userId
      /\ conversations[i].tenant_id = tenantId }

\* SELECT conversation_summary FROM conversations WHERE id = ? AND tenant_id = ?
selectConversationSummary(convId, tenantId) ==
  { i \in 1..Len(conversations) :
      i = convId /\ conversations[i].tenant_id = tenantId }

\* SELECT ... FROM messages WHERE conversation_id = ? AND tenant_id = ?
\* ORDER BY created_at ASC, id ASC
selectMessages(convId, tenantId) ==
  SelectSeq(Ids(messages),
            LAMBDA i : /\ messages[i].conversation_id = convId
                       /\ messages[i].tenant_id = tenantId)

\* the newest of a set of memory rows (ORDER BY updated_at DESC LIMIT 1)
newestOf(rows) ==
  { r \in rows : \A o \in rows : o.updated_at <= r.updated_at }

\* SELECT memory_summary FROM user_long_term_memory WHERE user_id = ? (tenant
\* not compared) ORDER BY updated_at DESC LIMIT 1
selectMemoryAnyTenant(userId, tenantId) ==
  newestOf({ r \in UserLongTermMemory : r.user_id = userId })

\* SELECT memory_summary FROM user_long_term_memory
\* WHERE user_id = ? AND tenant_id = ? ORDER BY updated_at DESC LIMIT 1
selectMemory(userId, tenantId) ==
  newestOf({ r \in UserLongTermMemory :
               r.user_id = userId /\ r.tenant_id = tenantId })

\* what a turn remembers of the rows it read
MessageReads(ids) ==
  { [table |-> "messages", id |-> ids[k], tenant_id |-> messages[ids[k]].tenant_id] :
      k \in 1..Len(ids) }
ConversationReads(ids) ==
  { [table |-> "conversations", id |-> i, tenant_id |-> conversations[i].tenant_id] :
      i \in ids }
MemoryReads(rows) ==
  { [table |-> "user_long_term_memory", id |-> r.id, tenant_id |-> r.tenant_id] :
      r \in rows }

\* ------------------------------------------------------------------------
\* Tenant and user resolution
\* ------------------------------------------------------------------------

\* what an awaited call on the core database or on a collaborator does
Outcomes == {"ok", "throw"}

\* what the SELECT on user_tenants of assertTenantAccess can do: a
\* SYSTEM_ADMIN is let through before it is made
AccessOutcomes(user) ==
  IF user.role = "SYSTEM_ADMIN" THEN {"ok"} ELSE Outcomes

\* assertTenantAccess(user): TRUE when it returns, FALSE when it throws,
\* its SELECT having thrown or found no row
assertTenantAccess(user, o) ==
  \/ user.role = "SYSTEM_ADMIN"
  \/ /\ o = "ok"
     /\ <<user.userId, user.tenantId>> \in UserTenants

\* getTenantContext(req, tenantId): the tenant rows found (none: it throws,
\* as it does when its SELECT on tenants throws)
getTenantContext(tenantId, o) ==
  IF o = "throw" THEN {}
  ELSE { t \in TenantRows : t.id = tenantId /\ t.is_active = 1 }

tenantOf(user) == CHOOSE t \in TenantRows : t.id = user.tenantId

\* ------------------------------------------------------------------------
\* The ask handler
\* ------------------------------------------------------------------------

\* the core tables after earlier non-data turns, asked before the asks that
\* are followed here (ask 0): user 2 of tenant 2 opened conversation 1 and
\* asked once in it; user 1 of tenant 1 opened conversation 2 and asked in it
\* so often that its next turn brings it to SUMMARY_MESSAGE_INTERVAL messages
EarlierConversations ==
  << [tenant_id |-> 2, user_id |-> 2, conversation_summary |-> "", ask |-> 0],
     [tenant_id |-> 1, user_id |-> 1, conversation_summary |-> "", ask |-> 0] >>

\* the conversation of each earlier turn
EarlierTurns ==
  <<1>> \o [k \in 1..((SUMMARY_MESSAGE_INTERVAL \div 2) - 1) |-> 2]

\* each earlier turn left a user message and an assistant message ...
EarlierMessages ==
  [i \in 1..(2 * Len(EarlierTurns)) |->
     LET c == EarlierTurns[(i + 1) \div 2] IN
       [tenant_id |-> EarlierConversations[c].tenant_id,
        conversation_id |-> c,
        role |-> IF i % 2 = 1 THEN "user" ELSE "assistant",
        answer_payload |-> IF i % 2 = 1 THEN NoPayload
                           ELSE nonDataPayload(TokensPerCall),
        ask |-> 0]]

\* ... and a token_usage row for the assistant message
EarlierTokenUsage ==
  [j \in 1..Len(EarlierTurns) |->
     LET c == EarlierTurns[j] IN
       [tenant_id |-> EarlierConversations[c].tenant_id,
        conversation_id |-> c,
        message_id |-> 2 * j,
        user_id |-> EarlierConversations[c].user_id,
        total_tokens |-> TokensPerCall,
        ask |-> 0]]

Init ==
  /\ qSql = <<>> /\ qScope = <<>> /\ qOut = Pending /\ upd = NoUpdate
  /\ conversations = EarlierConversations
  /\ messages = EarlierMessages
  /\ sql_queries = <<>>
  /\ token_usage = EarlierTokenUsage
  /\ query_logs = <<>>
  /\ pc = "idle"
  /\ req = NoRequest
  /\ loc = NoLocals
  /\ stream = NoStream
  /\ asks = 0
  /\ llmCalls = 0
  /\ llmUsage = 0
  /\ dbSent = <<>>
  /\ reads = {}
  /\ rag = NoRag
  /\ tbl = NoTable
  /\ sdb = NoSchemaCalls
  /\ qa = NoPairsCall
  /\ cv = NoTurns
  /\ chartCall = NoChartCall

\* a request arrives at /api/chat/ask; req.user is not set yet
StartAsk ==
  /\ pc = "idle"
  /\ upd.pc = "none"
  /\ asks < MaxAsks
  /\ \E m \in {"POST", "GET"}, a \in Authorizations,
        c \in 0..(Len(conversations) + 1), b \in Bodies :
       req' = [method |-> m, authorization |-> a, user |-> NoUser,
               body |-> b.json, typeofQuestion |-> b.typeofQuestion,
               conversationId |-> c, question |-> b.question]
  /\ asks' = asks + 1
  /\ pc' = "requireAuth"
  /\ stream' = NoStream
  /\ loc' = NoLocals
  /\ llmCalls' = 0
  /\ llmUsage' = 0
  /\ dbSent' = <<>>
  /\ reads' = {}
  /\ UNCHANGED <<qvars, dbvars>>

\* requireAuth(handler): a request without a bearer token, or with one that
\* does not decode to a user, is answered res.status(401).json(..), which
\* ends the response, and the handler is not called, so no event is ever
\* written; otherwise req.user = decoded and handler(req, res) is called,
\* which starts with createSse(res)
RequireAuth ==
  /\ pc = "requireAuth"
  /\ IF req.authorization # "Bearer valid"
       THEN /\ pc' = "unauthorized"
            /\ req' = req
            /\ stream' = jsonResponse(stream)
       ELSE /\ pc' = "requirePost"
            /\ \E decoded \in Principals : req' = [req EXCEPT !.user = decoded]
            /\ stream' = NoStream
  /\ UNCHANGED <<qvars, dbvars, loc, asks, llmCalls, llmUsage, dbSent, reads>>

\* if (!requirePost(req, streamError)) return
RequirePost ==
  /\ pc = "requirePost"
  /\ IF req.method # "POST"
       THEN /\ stream' = streamError(stream, "METHOD_NOT_ALLOWED")
            /\ pc' = "returned"
       ELSE /\ stream' = stream
            /\ pc' = "requireUserAndTenant"
  /\ UNCHANGED <<qvars, dbvars, req, loc, asks, llmCalls, llmUsage, dbSent, reads>>

\* requireUserAndTenant(req, streamError), up to its first await: no user
\* is UNAUTHORIZED; assertTenantAccess throwing, whatever it throws, is
\* FORBIDDEN
RequireUserAndTenant ==
  /\ pc = "requireUserAndTenant"
  /\ IF req.user = NoUser
       THEN /\ stream' = streamError(stream, "UNAUTHORIZED")
            /\ pc' = "returned"
            /\ loc' = loc
       ELSE \E o \in AccessOutcomes(req.user) :
              IF ~assertTenantAccess(req.user, o)
                THEN /\ stream' = streamError(stream, "FORBIDDEN")
                     /\ pc' = "returned"
                     /\ loc' = loc
                ELSE /\ stream' = stream
                     /\ pc' = "getTenantContext"
                     /\ loc' = [loc EXCEPT !.accessGranted = TRUE]
  /\ UNCHANGED <<qvars, dbvars, req, asks, llmCalls, llmUsage, dbSent, reads>>

\* requireUserAndTenant, its second await: getTenantContext throwing,
\* whatever it throws, is TENANT_NOT_FOUND; emitStatus(.., 2) once the
\* context is returned
GetTenantContext ==
  /\ pc = "getTenantContext"
  /\ \E o \in Outcomes :
       IF getTenantContext(req.user.tenantId, o) = {}
         THEN /\ stream' = streamError(stream, "TENANT_NOT_FOUND")
              /\ pc' = "returned"
              /\ loc' = loc
         ELSE /\ stream' = emitStatus(stream, 2)
              /\ pc' = "validate"
              /\ loc' = [loc EXCEPT !.tenantFound = TRUE]
  /\ UNCHANGED <<qvars, dbvars, req, asks, llmCalls, llmUsage, dbSent, reads>>

\* const { conversationId, question, useRag } = req.body, then the
\* validation of the question. The destructuring stands before the try
\* block: req.body null makes it throw a TypeError that nothing in the
\* handler catches, so the handler's promise is rejected with the stream
\* as it is. A question that is no string, or a blank one, is
\* INVALID_REQUEST
ValidateRequest ==
  /\ pc = "validate"
  /\ IF req.body = Null
       THEN /\ stream' = stream
            /\ pc' = "rejected"
       ELSE IF req.typeofQuestion # "string" \/ isBlank(req.question)
         THEN /\ stream' = streamError(stream, "INVALID_REQUEST")
              /\ pc' = "returned"
         ELSE /\ stream' = stream
              /\ pc' = "ensureConversation"
  /\ UNCHANGED <<qvars, dbvars, req, loc, asks, llmCalls, llmUsage, dbSent, reads>>

\* ensureConversationAndPersistUserMessage, first query: the conversation is
\* created when no id came with the request, and looked up otherwise
EnsureConversation ==
  /\ pc = "ensureConversation"
  /\ \E o \in Outcomes :
       IF o = "throw"
         THEN /\ pc' = "catch"
              /\ UNCHANGED <<conversations, loc, stream, reads>>
       ELSE IF req.conversationId = 0
         THEN /\ conversations' =
                   Append(conversations,
                          [tenant_id |-> req.user.tenantId,
                           user_id |-> req.user.userId,
                           conversation_summary |-> "", ask |-> asks])
              /\ loc' = [loc EXCEPT !.convId = Len(conversations) + 1]
              /\ pc' = "persistUserMessage"
              /\ UNCHANGED <<stream, reads>>
       ELSE LET existing ==
                  selectOwnedConversation(req.conversationId, req.user.userId,
                                          req.user.tenantId)
            IN  /\ reads' = reads \cup ConversationReads(existing)
                /\ UNCHANGED conversations
                /\ IF existing = {}
                     THEN /\ stream' = streamError(stream, "CONVERSATION_NOT_FOUND")
                          /\ pc' = "returned"
                          /\ loc' = [loc EXCEPT !.convId = req.conversationId]
                     ELSE /\ stream' = stream
                          /\ pc' = "persistUserMessage"
                          /\ loc' = [loc EXCEPT !.convId = req.conversationId]
  /\ UNCHANGED <<qvars, messages, sql_queries, token_usage, query_logs,
                 req, asks, llmCalls, llmUsage, dbSent>>

\* the user message row of an ask
userMessageRow ==
  [tenant_id |-> req.user.tenantId, conversation_id |-> loc.convId,
   role |-> "user", answer_payload |-> NoPayload, ask |-> asks]

\* the message table after the bootstrap's INSERT INTO messages was left out
insertUserMessageSkipped(table) == table

\* INSERT INTO messages (conversation_id, tenant_id, role, content)
insertUserMessage(table) == Append(table, userMessageRow)

\* ensureConversationAndPersistUserMessage, second query, and
\* emitStatus("Understanding your question", 8)
PersistUserMessage ==
  /\ pc = "persistUserMessage"
  /\ \E o \in Outcomes :
       IF o = "throw"
         THEN /\ pc' = "catch"
              /\ UNCHANGED <<messages, loc, stream>>
         ELSE /\ messages' = insertUserMessage(messages)
              /\ loc' = [loc EXCEPT !.userMessageId = Len(messages) + 1]
              /\ stream' = emitStatus(stream, 8)
              /\ pc' = "classify"
  /\ UNCHANGED <<qvars, conversations, sql_queries, token_usage, query_logs,
                 req, asks, llmCalls, llmUsage, dbSent, reads>>

\* isDataQuestion with a permissive reading turned around: what is neither
\* YES nor NO counts as not a data question
isDataQuestionStrict(text) ==
  startsWith(toUpperCase(trim(text)), <<"Y","E","S">>)

\* isDataQuestion's reading of the model's reply
isDataQuestion(text) ==
  IF startsWith(toUpperCase(trim(text)), <<"Y","E","S">>) THEN TRUE
  ELSE IF startsWith(toUpperCase(trim(text)), <<"N","O">>) THEN FALSE
  ELSE TRUE

\* replies of the classifier's model call
ClassifierTexts ==
  { <<"Y","E","S">>, <<" ","n","o","\n">>, <<"M","a","y","b","e">> }

\* what the classifier's model call did: it returned a reply, or it threw
ClassifierCalls ==
  [threw : {FALSE}, text : ClassifierTexts] \cup {[threw |-> TRUE, text |-> <<>>]}

\* classifyDataRequest's result for an outcome of the model call: true when
\* the call threw
classifyDataRequest(call) ==
  IF call.threw THEN TRUE ELSE isDataQuestion(call.text)

\* isDataQuestion: the classifier's model call
IsDataQuestion ==
  /\ pc = "classify"
  /\ llmCalls' = llmCalls + 1
  /\ \E call \in ClassifierCalls :
       /\ loc' = [loc EXCEPT !.classifierCall = call]
       /\ llmUsage' = llmUsage + (IF call.threw THEN 0 ELSE TokensPerCall)
  /\ pc' = "classifyDataRequest"
  /\ UNCHANGED <<qvars, dbvars, req, stream, asks, dbSent, reads>>

\* classifyDataRequest after the call: emitStatus(.., isDataRequest ? 15 : 20),
\* and the handler's branch on the result, up to its next await: on the data
\* path emitStatus("Gathering user context", 25) and the call of
\* buildConversationSummary, on the non-data path handleNonData's
\* emitStatus("Drafting response", 60) and the call of buildNonDataResponse
ClassifyDataRequest ==
  /\ pc = "classifyDataRequest"
  /\ LET isData == classifyDataRequest(loc.classifierCall) IN
       /\ loc' = [loc EXCEPT !.isDataRequest = isData, !.classifierCall = NoCall]
       /\ stream' = IF isData
                      THEN emitStatus(emitStatus(stream, 15), 25)
                      ELSE emitStatus(emitStatus(stream, 20), 60)
       /\ pc' = IF isData THEN "buildConversationSummary" ELSE "nonDataRespond"
  /\ UNCHANGED <<qvars, dbvars, req, asks, llmCalls, llmUsage, dbSent, reads>>

\* an assistant message row stored without the turn's answerPayload
assistantMessageRowWithoutPayload ==
  [tenant_id |-> req.user.tenantId, conversation_id |-> loc.convId,
   role |-> "assistant", answer_payload |-> NoPayload, ask |-> asks]

\* the assistant message row of an ask
assistantMessageRow ==
  [tenant_id |-> req.user.tenantId, conversation_id |-> loc.convId,
   role |-> "assistant", answer_payload |-> loc.answerPayload, ask |-> asks]

\* the token_usage row of an ask, for the assistant message just inserted
tokenUsageRow ==
  [tenant_id |-> req.user.tenantId, conversation_id |-> loc.convId,
   message_id |-> loc.persistedMessageId, user_id |-> req.user.userId,
   total_tokens |-> loc.usage, ask |-> asks]

\* what the model call of the non-data reply did: a reply, an empty reply
\* (buildNonDataResponse's static text), or a throw (fallbackNonDataText)
ReplyCalls == {"reply", "empty", "throw"}

\* handleNonData's totalUsage: the usage of the classification it was given
\* (the handler passes none) and of the reply
totalUsage(classificationUsage, responseUsage) ==
  classificationUsage + responseUsage

\* handleNonData, from the reply's model call on: the call returned or
\* threw, the answerPayload is made, emitStatus("Finalizing response", 90)
NonDataRespond ==
  /\ pc = "nonDataRespond"
  /\ llmCalls' = llmCalls + 1
  /\ \E call \in ReplyCalls :
       LET responseUsage == IF call = "throw" THEN 0 ELSE TokensPerCall
       IN  /\ llmUsage' = llmUsage + responseUsage
           /\ loc' = [loc EXCEPT
                        !.usage = totalUsage(0, responseUsage),
                        !.answerPayload =
                          nonDataPayload(totalUsage(0, responseUsage))]
  /\ stream' = emitStatus(stream, 90)
  /\ pc' = "nonDataPersistMessage"
  /\ UNCHANGED <<qvars, dbvars, req, asks, dbSent, reads>>

\* handleNonData: INSERT INTO messages (the assistant message)
NonDataPersistMessage ==
  /\ pc = "nonDataPersistMessage"
  /\ \E o \in Outcomes :
       IF o = "throw"
         THEN /\ pc' = "catch"
              /\ UNCHANGED <<messages, loc>>
         ELSE /\ messages' = Append(messages, assistantMessageRow)
              /\ loc' = [loc EXCEPT !.persistedMessageId = Len(messages) + 1]
              /\ pc' = "nonDataPersistUsage"
  /\ UNCHANGED <<qvars, conversations, sql_queries, token_usage, query_logs,
                 req, stream, asks, llmCalls, llmUsage, dbSent, reads>>

\* handleNonData: INSERT INTO token_usage
NonDataPersistUsage ==
  /\ pc = "nonDataPersistUsage"
  /\ \E o \in Outcomes :
       IF o = "throw"
         THEN /\ pc' = "catch"
              /\ UNCHANGED token_usage
         ELSE /\ token_usage' = Append(token_usage, tokenUsageRow)
              /\ pc' = "nonDataFinal"
  /\ UNCHANGED <<qvars, conversations, messages, sql_queries, query_logs,
                 req, loc, stream, asks, llmCalls, llmUsage, dbSent, reads>>

\* handleNonData: the messages are read back, emitStatus("Done.", 100),
\* closeWith("final", ..)
NonDataFinal ==
  /\ pc = "nonDataFinal"
  /\ \E o \in Outcomes :
       IF o = "throw"
         THEN /\ pc' = "catch"
              /\ UNCHANGED <<loc, stream, reads>>
         ELSE LET rows == selectMessages(loc.convId, req.user.tenantId)
              IN  /\ loc' = [loc EXCEPT !.messages = rows]
                  /\ reads' = reads \cup MessageReads(rows)
                  /\ stream' = closeWith(emitStatus(stream, 100), "final", "")
                  /\ pc' = "returned"
  /\ UNCHANGED <<qvars, dbvars, req, asks, llmCalls, llmUsage, dbSent>>

\* buildConversationSummary: the conversation's summary is read; it is ""
\* when the read throws
BuildConversationSummary ==
  /\ pc = "buildConversationSummary"
  /\ \E o \in Outcomes :
       IF o = "throw"
         THEN UNCHANGED reads
         ELSE reads' = reads \cup
                ConversationReads(
                  selectConversationSummary(loc.convId, req.user.tenantId))
  /\ pc' = "getUserLongTermMemorySummary"
  /\ UNCHANGED <<qvars, dbvars, req, loc, stream, asks, llmCalls, llmUsage, dbSent>>

\* getUserLongTermMemorySummary(user): nothing catches its read
GetUserLongTermMemorySummary ==
  /\ pc = "getUserLongTermMemorySummary"
  /\ \E o \in Outcomes :
       IF o = "throw"
         THEN /\ pc' = "catch"
              /\ UNCHANGED reads
         ELSE /\ reads' = reads \cup
                   MemoryReads(selectMemory(req.user.userId, req.user.tenantId))
              /\ pc' = "getRecentQAPairs"
  /\ UNCHANGED <<qvars, dbvars, req, loc, stream, asks, llmCalls, llmUsage, dbSent>>

\* getRecentQAPairs: the conversation's messages are read ("" when the read
\* throws); emitStatus("Getting Business Context", 35)
GetRecentQAPairs ==
  /\ pc = "getRecentQAPairs"
  /\ \E o \in Outcomes :
       IF o = "throw"
         THEN UNCHANGED reads
         ELSE reads' = reads \cup
                MessageReads(selectMessages(loc.convId, req.user.tenantId))
  /\ stream' = emitStatus(stream, 35)
  /\ pc' = "retrieveRAGContext"
  /\ UNCHANGED <<qvars, dbvars, req, loc, asks, llmCalls, llmUsage, dbSent>>

\* retrieveRAGContext, which catches what the vector store throws, and
\* buildCombinedContext: they touch neither the core tables nor the stream;
\* emitStatus("Generating SQL", 50)
RetrieveRAGContext ==
  /\ pc = "retrieveRAGContext"
  /\ stream' = emitStatus(stream, 50)
  /\ pc' = "getDataDbSchema"
  /\ UNCHANGED <<qvars, dbvars, req, loc, asks, llmCalls, llmUsage, dbSent, reads>>

\* getDataDbSchema(tenant): nothing catches a failure
GetDataDbSchema ==
  /\ pc = "getDataDbSchema"
  /\ \E o \in Outcomes :
       pc' = IF o = "throw" THEN "catch" ELSE "convertToSQL"
  /\ UNCHANGED <<qvars, dbvars, req, loc, stream, asks, llmCalls, llmUsage, dbSent, reads>>

\* convertToSQL: one model call, nothing catches a failure;
\* emitStatus("Running query on database", 65)
ConvertToSQL ==
  /\ pc = "convertToSQL"
  /\ llmCalls' = llmCalls + 1
  /\ \/ /\ pc' = "catch"
        /\ UNCHANGED <<loc, stream, llmUsage>>
     \/ \E text \in TranslatorReplies :
          /\ loc' = [loc EXCEPT !.sql = convertToSQL(text)]
          /\ llmUsage' = llmUsage + TokensPerCall
          /\ stream' = emitStatus(stream, 65)
          /\ pc' = "executeDataSQL"
  /\ UNCHANGED <<qvars, dbvars, req, asks, dbSent, reads>>

\* executeDataSQL: what runTenantScopedQuery threw is kept, never rethrown
executeDataSQL(scopeFilter, sql, dbOutcome) ==
  CHOOSE exec \in
    { [sql |-> IF r.threw THEN sql ELSE r.sent,
       rowCount |-> r.rows,
       status |-> IF r.threw THEN "error" ELSE "success",
       errorMessage |-> r.message,
       sent |-> r.sent] :
        r \in {runTenantScopedQuery(scopeFilter, sql, dbOutcome)} } : TRUE

\* const exec = await executeDataSQL({ tenant, sql })
ExecuteDataSQL ==
  /\ pc = "executeDataSQL"
  /\ \E o \in DbOutcomes :
       \E e \in {executeDataSQL(tenantOf(req.user).scope_filter, loc.sql, o)} :
           /\ loc' = [loc EXCEPT !.exec = [sql |-> e.sql, rowCount |-> e.rowCount,
                                           status |-> e.status,
                                           errorMessage |-> e.errorMessage]]
           /\ dbSent' = IF e.sent = <<>> THEN dbSent ELSE Append(dbSent, e.sent)
  /\ pc' = "logFinalSQL"
  /\ UNCHANGED <<qvars, dbvars, req, stream, asks, llmCalls, llmUsage, reads>>

\* the sql_queries row of an ask
sqlQueryRow ==
  [tenant_id |-> req.user.tenantId, conversation_id |-> loc.convId,
   message_id |-> loc.userMessageId, sql_text |-> loc.exec.sql,
   status |-> loc.exec.status, error_message |-> loc.exec.errorMessage,
   ask |-> asks]

\* logFinalSQL that records successful executions only
logFinalSQLSuccessOnly(table) ==
  IF loc.exec.status = "error" THEN table ELSE Append(table, sqlQueryRow)

\* logFinalSQL: INSERT INTO sql_queries
logFinalSQL(table) == Append(table, sqlQueryRow)

\* const sqlQueryId = await logFinalSQL({..}); the turn goes on whatever
\* exec.executionError holds; emitStatus("Generating AI Answer", 80)
LogFinalSQL ==
  /\ pc = "logFinalSQL"
  /\ \E o \in Outcomes :
       IF o = "throw"
         THEN /\ pc' = "catch"
              /\ UNCHANGED <<sql_queries, loc, stream>>
         ELSE /\ sql_queries' = logFinalSQL(sql_queries)
              /\ loc' = [loc EXCEPT !.sqlQueryId = Len(sql_queries')]
              /\ stream' = emitStatus(stream, 80)
              /\ pc' = "getAnswerText"
  /\ UNCHANGED <<qvars, conversations, messages, token_usage, query_logs,
                 req, asks, llmCalls, llmUsage, dbSent, reads>>

\* getAnswerText: the summarization model call, nothing catches a failure
GetAnswerText ==
  /\ pc = "getAnswerText"
  /\ llmCalls' = llmCalls + 1
  /\ \E o \in Outcomes :
       IF o = "throw"
         THEN /\ pc' = "catch"
              /\ UNCHANGED <<loc, llmUsage>>
         ELSE /\ loc' = [loc EXCEPT !.usage = TokensPerCall]
              /\ llmUsage' = llmUsage + TokensPerCall
              /\ pc' = "logAnswerTelemetry"
  /\ UNCHANGED <<qvars, dbvars, req, stream, asks, dbSent, reads>>

\* the query_logs row of an ask
queryLogRow ==
  [tenant_id |-> req.user.tenantId, conversation_id |-> loc.convId,
   user_id |-> req.user.userId, status |-> loc.exec.status, ask |-> asks]

\* logAnswerTelemetry: INSERT INTO query_logs, a failure is logged and dropped
LogAnswerTelemetry ==
  /\ pc = "logAnswerTelemetry"
  /\ \E o \in Outcomes :
       query_logs' = IF o = "throw" THEN query_logs
                     ELSE Append(query_logs, queryLogRow)
  /\ pc' = "buildAnswerPayload"
  /\ UNCHANGED <<qvars, conversations, messages, sql_queries, token_usage,
                 req, loc, stream, asks, llmCalls, llmUsage, dbSent, reads>>

\* what buildAreaChart did: no model call and no chart (no date column, no
\* numeric candidate); or a model call for the metric, which replied or
\* threw (caught, the heuristic picks), and then a chart, or none when no
\* row gave a point
ChartCalls ==
  { [call |-> "none", chart |-> FALSE] }
    \cup [call : {"reply", "throw"}, chart : BOOLEAN]

\* buildTable, buildAreaChart, buildRagMeta, buildAnswerPayload with the
\* usage of getAnswerText; emitStatus("Finalizing response", 92)
BuildAnswerPayload ==
  /\ pc = "buildAnswerPayload"
  /\ \E c \in ChartCalls :
       /\ c.call # "none" => loc.exec.rowCount > 0
       /\ llmCalls' = IF c.call # "none" THEN llmCalls + 1 ELSE llmCalls
       /\ llmUsage' = IF c.call = "reply" THEN llmUsage + TokensPerCall
                      ELSE llmUsage
       /\ loc' = [loc EXCEPT !.answerPayload =
                    buildAnswerPayload(loc.usage, loc.exec.rowCount,
                                       areaChartResult(c.chart))]
  /\ stream' = emitStatus(stream, 92)
  /\ pc' = "persistAssistantMessage"
  /\ UNCHANGED <<qvars, dbvars, req, asks, dbSent, reads>>

\* persistAssistantMessage: INSERT INTO messages
PersistAssistantMessage ==
  /\ pc = "persistAssistantMessage"
  /\ \E o \in Outcomes :
       IF o = "throw"
         THEN /\ pc' = "catch"
              /\ UNCHANGED <<messages, loc>>
         ELSE /\ messages' = Append(messages, assistantMessageRow)
              /\ loc' = [loc EXCEPT !.persistedMessageId = Len(messages) + 1]
              /\ pc' = "persistTokenUsage"
  /\ UNCHANGED <<qvars, conversations, sql_queries, token_usage, query_logs,
                 req, stream, asks, llmCalls, llmUsage, dbSent, reads>>

\* persistAssistantMessage: INSERT INTO token_usage
PersistTokenUsage ==
  /\ pc = "persistTokenUsage"
  /\ \E o \in Outcomes :
       IF o = "throw"
         THEN /\ pc' = "catch"
              /\ UNCHANGED token_usage
         ELSE /\ token_usage' = Append(token_usage, tokenUsageRow)
              /\ pc' = "updateMessageSummary"
  /\ UNCHANGED <<qvars, conversations, messages, sql_queries, query_logs,
                 req, loc, stream, asks, llmCalls, llmUsage, dbSent, reads>>

\* the gate left open: the summary is refreshed in every turn
summaryDueAlways(messageCount) == TRUE

\* maybeUpdateConversationSummary's gate on the number of messages
summaryDue(messageCount) ==
  ~(\/ messageCount < MIN_MESSAGES_FOR_SUMMARY
    \/ messageCount % SUMMARY_MESSAGE_INTERVAL # 0)

\* what the model call of maybeUpdateConversationSummary did: it threw, its
\* summary was empty once trimmed, or it gave a summary
SummaryCalls == {"throw", "empty", "text"}

\* updateMessageSummary: the messages are read back (nothing catches a
\* failure); maybeUpdateConversationSummary returns at once when its gate
\* is shut for their number
UpdateMessageSummary ==
  /\ pc = "updateMessageSummary"
  /\ \E o \in Outcomes :
       IF o = "throw"
         THEN /\ pc' = "catch"
              /\ UNCHANGED <<loc, reads>>
         ELSE LET rows == selectMessages(loc.convId, req.user.tenantId)
              IN  /\ loc' = [loc EXCEPT !.messages = rows]
                  /\ reads' = reads \cup MessageReads(rows)
                  /\ pc' = IF summaryDue(Len(rows)) THEN "summaryPrompt"
                           ELSE "sendFinal"
  /\ UNCHANGED <<qvars, dbvars, req, stream, asks, llmCalls, llmUsage, dbSent>>

\* maybeUpdateConversationSummary: await summaryPrompt.formatMessages, of
\* the transcript of the messages read
FormatSummaryPrompt ==
  /\ pc = "summaryPrompt"
  /\ pc' = "summaryCall"
  /\ UNCHANGED <<qvars, dbvars, req, loc, stream, asks, llmCalls, llmUsage,
                 dbSent, reads>>

\* maybeUpdateConversationSummary: await llm.invoke; updateMessageSummary
\* catches what it throws; an empty summary is not written
SummaryCall ==
  /\ pc = "summaryCall"
  /\ llmCalls' = llmCalls + 1
  /\ \E u \in SummaryCalls :
       /\ llmUsage' = IF u = "throw" THEN llmUsage
                      ELSE llmUsage + TokensPerCall
       /\ pc' = IF u = "text" THEN "summaryUpdate" ELSE "sendFinal"
  /\ UNCHANGED <<qvars, dbvars, req, loc, stream, asks, dbSent, reads>>

\* maybeUpdateConversationSummary: UPDATE conversations SET
\* conversation_summary; updateMessageSummary catches what it throws
SummaryUpdate ==
  /\ pc = "summaryUpdate"
  /\ \E o \in Outcomes :
       conversations' =
         IF o = "throw" THEN conversations
         ELSE [conversations EXCEPT
                 ![loc.convId].conversation_summary = "updated"]
  /\ pc' = "sendFinal"
  /\ UNCHANGED <<qvars, messages, sql_queries, token_usage, query_logs,
                 req, loc, stream, asks, llmCalls, llmUsage, dbSent, reads>>

\* the final event written before the last status
sendFinalBeforeDone(s) == emitStatus(closeWith(s, "final", ""), 100)

\* emitStatus("Done.", 100); closeWith("final", ..)
sendFinal(s) == closeWith(emitStatus(s, 100), "final", "")

SendFinal ==
  /\ pc = "sendFinal"
  /\ stream' = sendFinal(stream)
  /\ pc' = "returned"
  /\ UNCHANGED <<qvars, dbvars, req, loc, asks, llmCalls, llmUsage, dbSent, reads>>

\* catch (err): if (!res.writableEnded) streamError(500, "INTERNAL_SERVER_ERROR")
OuterCatch ==
  /\ pc = "catch"
  /\ stream' = IF ~stream.ended
                 THEN streamError(stream, "INTERNAL_SERVER_ERROR")
                 ELSE stream
  /\ pc' = "returned"
  /\ UNCHANGED <<qvars, dbvars, req, loc, asks, llmCalls, llmUsage, dbSent, reads>>

\* requireAuth's return handler(req, res) is not awaited inside its try
\* block, so its catch does not see the rejection of the handler: the
\* rejection leaves the route with nothing more written to the response
Rejected ==
  /\ pc = "rejected"
  /\ pc' = "idle"
  /\ req' = NoRequest
  /\ loc' = NoLocals
  /\ stream' = NoStream
  /\ llmCalls' = 0
  /\ llmUsage' = 0
  /\ dbSent' = <<>>
  /\ reads' = {}
  /\ UNCHANGED <<qvars, dbvars, asks>>

\* the handler has returned, or requireAuth has answered for it; the server
\* waits for the next request
Return ==
  /\ pc \in {"returned", "unauthorized"}
  /\ pc' = "idle"
  /\ req' = NoRequest
  /\ loc' = NoLocals
  /\ stream' = NoStream
  /\ llmCalls' = 0
  /\ llmUsage' = 0
  /\ dbSent' = <<>>
  /\ reads' = {}
  /\ UNCHANGED <<qvars, dbvars, asks>>

Next ==
  \/ StartAsk
  \/ RequireAuth
  \/ RequirePost
  \/ RequireUserAndTenant
  \/ GetTenantContext
  \/ ValidateRequest
  \/ EnsureConversation
  \/ PersistUserMessage
  \/ IsDataQuestion
  \/ ClassifyDataRequest
  \/ NonDataRespond
  \/ NonDataPersistMessage
  \/ NonDataPersistUsage
  \/ NonDataFinal
  \/ BuildConversationSummary
  \/ GetUserLongTermMemorySummary
  \/ GetRecentQAPairs
  \/ RetrieveRAGContext
  \/ GetDataDbSchema
  \/ ConvertToSQL
  \/ ExecuteDataSQL
  \/ LogFinalSQL
  \/ GetAnswerText
  \/ LogAnswerTelemetry
  \/ BuildAnswerPayload
  \/ PersistAssistantMessage
  \/ PersistTokenUsage
  \/ UpdateMessageSummary
  \/ FormatSummaryPrompt
  \/ SummaryCall
  \/ SummaryUpdate
  \/ SendFinal
  \/ OuterCatch
  \/ Rejected
  \/ Return

Spec == Init /\ [][Next]_vars

\* a step of the handler: every action but the arrival of a request
HandlerStep == Next /\ pc # "idle"

\* the handler under the event loop: an await whose call returned or threw
\* is resumed, so a handler that can take a step does take one
FairSpec == Spec /\ WF_vars(HandlerStep)

\* ------------------------------------------------------------------------
\* The executor on its own, over statements built from pieces
\* ------------------------------------------------------------------------

\* a statement and a tenant's scope_filter
GuardInit ==
  /\ \E h \in Heads, lead \in LeadSeps, ts \in TailSeqs, f \in ScopeFilters :
       /\ qSql = lead \o h \o joinTails(ts, 1)
       /\ qScope = f
  /\ qOut = Pending /\ upd = NoUpdate
  /\ conversations = <<>> /\ messages = <<>> /\ sql_queries = <<>>
  /\ token_usage = <<>> /\ query_logs = <<>>
  /\ pc = "idle" /\ req = NoRequest /\ loc = NoLocals /\ stream = NoStream
  /\ asks = 0 /\ llmCalls = 0 /\ llmUsage = 0 /\ dbSent = <<>> /\ reads = {}
  /\ rag = NoRag
  /\ tbl = NoTable
  /\ sdb = NoSchemaCalls
  /\ qa = NoPairsCall
  /\ cv = NoTurns
  /\ chartCall = NoChartCall

\* runTenantScopedQuery(tenant, sql) is called once on the statement
RunTenantScopedQuery ==
  /\ qOut = Pending
  /\ \E o \in DbOutcomes :
       qOut' = runTenantScopedQuery(qScope, qSql, o)
  /\ UNCHANGED <<qSql, qScope, upd, fvars, dbvars, hvars>>

GuardNext == RunTenantScopedQuery

GuardSpec == GuardInit /\ [][GuardNext]_vars

\* ------------------------------------------------------------------------
\* applySummaryUsageUpdate on its own, called for an assistant message and
\* its token_usage row that hold the same total
\* ------------------------------------------------------------------------

\* the largest total stored for a turn before the call
MaxStoredTokens == 3

\* the largest usage of a summary refresh
MaxSummaryTokens == 2

\* hasUsage(usage)
hasUsage(usage) == usage > 0

\* the stored assistant messages and their token_usage rows, as
\* persistAssistantMessage left them: token_usage row j is for message 2 * j
messagesWithTotal(t) ==
  [i \in 1..Len(EarlierMessages) |->
     IF EarlierMessages[i].role = "assistant"
       THEN [EarlierMessages[i] EXCEPT !.answer_payload.tokens = t]
       ELSE EarlierMessages[i]]
tokenUsageWithTotal(t) ==
  [j \in 1..Len(EarlierTokenUsage) |->
     [EarlierTokenUsage[j] EXCEPT !.total_tokens = t]]

\* the messages argument: the rows a caller read with selectMessages, each
\* with its id and its answer_payload as stored when it was read
messageRows(rows) ==
  [k \in 1..Len(rows) |->
     [id |-> rows[k], answer_payload |-> messages[rows[k]].answer_payload]]

\* messages.find((m) => m.id === messageId), and the answer_payload of the
\* row found, if one is, set to the payload
rewriteEntry(list, messageId, payload) ==
  LET found == { k \in 1..Len(list) : list[k].id = messageId } IN
    [k \in 1..Len(list) |->
       IF k \in found /\ \A f \in found : k <= f
         THEN [list[k] EXCEPT !.answer_payload = payload]
         ELSE list[k]]

\* the call is made with the messages of the conversation as read, or with
\* an empty list
UsageInit ==
  /\ qSql = <<>> /\ qScope = <<>> /\ qOut = Pending
  /\ conversations = EarlierConversations
  /\ sql_queries = <<>> /\ query_logs = <<>>
  /\ \E t \in 0..MaxStoredTokens, s \in 0..MaxSummaryTokens,
        j \in 1..Len(EarlierTokenUsage), n \in {0, RowsReturned},
        made \in BOOLEAN, listed \in BOOLEAN :
       /\ messages = messagesWithTotal(t)
       /\ token_usage = tokenUsageWithTotal(t)
       /\ upd = [pc |-> "call", summaryUsage |-> s, totalUsage |-> t + s,
                 rowCount |-> n, chart |-> areaChartResult(made),
                 messageId |-> EarlierTokenUsage[j].message_id,
                 tenantId |-> EarlierTokenUsage[j].tenant_id,
                 tokenUsageId |-> j,
                 messages |->
                   IF listed
                     THEN messageRows(
                            selectMessages(EarlierTokenUsage[j].conversation_id,
                                           EarlierTokenUsage[j].tenant_id))
                     ELSE <<>>,
                 answerPayload |-> NoPayload]
  /\ pc = "idle" /\ req = NoRequest /\ loc = NoLocals /\ stream = NoStream
  /\ asks = 0 /\ llmCalls = 0 /\ llmUsage = 0 /\ dbSent = <<>> /\ reads = {}
  /\ rag = NoRag
  /\ tbl = NoTable
  /\ sdb = NoSchemaCalls
  /\ qa = NoPairsCall
  /\ cv = NoTurns
  /\ chartCall = NoChartCall

\* if (!hasUsage(summaryUsage)) return { answerPayload: null, messages };
\* otherwise the answerPayload is built again from the arguments: the table
\* and the chart passed and totalUsage
ApplySummaryUsageUpdate ==
  /\ upd.pc = "call"
  /\ upd' = IF hasUsage(upd.summaryUsage)
              THEN [upd EXCEPT !.pc = "updateMessages",
                               !.answerPayload =
                                  buildAnswerPayload(upd.totalUsage,
                                                     upd.rowCount, upd.chart)]
              ELSE [upd EXCEPT !.pc = "returned", !.answerPayload = NoPayload]
  /\ UNCHANGED <<qSql, qScope, qOut, fvars, dbvars, hvars>>

\* UPDATE messages SET answer_payload = ? WHERE id = ? AND tenant_id = ?,
\* with JSON.stringify(answerPayload)
UpdateAnswerPayload ==
  /\ upd.pc = "updateMessages"
  /\ \E o \in Outcomes :
       IF o = "throw"
         THEN /\ upd' = [upd EXCEPT !.pc = "threw"]
              /\ UNCHANGED messages
         ELSE /\ messages' =
                   [i \in 1..Len(messages) |->
                      IF i = upd.messageId /\ messages[i].tenant_id = upd.tenantId
                        THEN [messages[i] EXCEPT
                                !.answer_payload = upd.answerPayload]
                        ELSE messages[i]]
              /\ upd' = [upd EXCEPT !.pc = "updateTokenUsage"]
  /\ UNCHANGED <<qSql, qScope, qOut, fvars, conversations, sql_queries, token_usage,
                 query_logs, hvars>>

\* UPDATE token_usage SET .., total_tokens = ? WHERE id = ?; once it has
\* returned, the entry of the message in the messages passed is given
\* JSON.stringify(answerPayload) and { answerPayload, messages } is returned
UpdateTokenUsage ==
  /\ upd.pc = "updateTokenUsage"
  /\ \E o \in Outcomes :
       IF o = "throw"
         THEN /\ upd' = [upd EXCEPT !.pc = "threw"]
              /\ UNCHANGED token_usage
         ELSE /\ token_usage' =
                   [j \in 1..Len(token_usage) |->
                      IF j = upd.tokenUsageId
                        THEN [token_usage[j] EXCEPT !.total_tokens = upd.totalUsage]
                        ELSE token_usage[j]]
              /\ upd' = [upd EXCEPT !.pc = "returned",
                                    !.messages =
                                       rewriteEntry(upd.messages, upd.messageId,
                                                    upd.answerPayload)]
  /\ UNCHANGED <<qSql, qScope, qOut, fvars, conversations, messages, sql_queries,
                 query_logs, hvars>>

UsageNext ==
  \/ ApplySummaryUsageUpdate
  \/ UpdateAnswerPayload
  \/ UpdateTokenUsage

UsageSpec == UsageInit /\ [][UsageNext]_vars

\* the turns of the handler, and the calls of applySummaryUsageUpdate
\* followed from their start, in one specification: the handler does not
\* call applySummaryUsageUpdate, so no behaviour holds steps of both
PayloadInit == Init \/ UsageInit

PayloadNext == Next \/ UsageNext

PayloadSpec == PayloadInit /\ [][PayloadNext]_vars

\* ------------------------------------------------------------------------
\* Retrieval from the vector store in a data turn: useRag as the request
\* gave it, retrieveRAGContext, buildRagMeta, the final event
\* ------------------------------------------------------------------------

\* documents similaritySearch returns at most in the runs followed here
MaxDocs == 2

\* req.body.useRag, as the JSON text of the value ("undefined": left out)
UseRagValues == { "\"1\"", "true", "\"true\"", "1", "false", "undefined" }

\* const useRagBool = useRag === "1" || useRag === true
useRagBool(useRag) == useRag = "\"1\"" \/ useRag = "true"

\* metadata of the documents in the tenant's collection
DocMetadata ==
  { [title |-> "Returns policy", table_name |-> ""],
    [title |-> "", table_name |-> "sales"],
    [title |-> "", table_name |-> ""] }

\* what similaritySearch can return
DocLists == UNION { [1..n -> DocMetadata] : n \in 0..MaxDocs }

\* err.message of what getVectorStore or similaritySearch throws
VectorErrors == { "connect ECONNREFUSED", "Request timed out", "" }

\* what the vector store did when asked
VectorOutcomes ==
  [threw : {TRUE}, message : VectorErrors, docs : {<<>>}]
    \cup [threw : {FALSE}, message : {""}, docs : DocLists]

\* String(err?.message || err) of an Error
ragErrorOf(message) == IF message # "" THEN message ELSE "Error"

\* retrieveRAGContext with the try/catch around the vector store removed
retrieveRAGContextUncaught(useRag, outcome) ==
  IF ~useRag
    THEN [threw |-> FALSE, called |-> FALSE, retrievedDocs |-> <<>>,
          ragError |-> Null]
  ELSE [threw |-> outcome.threw, called |-> TRUE,
        retrievedDocs |-> outcome.docs, ragError |-> Null]

\* retrieveRAGContext({ tenant, question, useRag }): no call when useRag is
\* false; what the vector store throws is caught, its message kept, the
\* documents emptied
retrieveRAGContext(useRag, outcome) ==
  IF ~useRag
    THEN [threw |-> FALSE, called |-> FALSE, retrievedDocs |-> <<>>,
          ragError |-> Null]
  ELSE IF outcome.threw
    THEN [threw |-> FALSE, called |-> TRUE, retrievedDocs |-> <<>>,
          ragError |-> ragErrorOf(outcome.message)]
  ELSE [threw |-> FALSE, called |-> TRUE, retrievedDocs |-> outcome.docs,
        ragError |-> Null]

\* a source's title: meta.title || meta.table_name || meta.filename ||
\* `Source #${idx + 1}` (the documents followed here have no filename)
sourceTitle(meta, idx) ==
  IF meta.title # "" THEN <<"title", meta.title>>
  ELSE IF meta.table_name # "" THEN <<"title", meta.table_name>>
  ELSE <<"Source #", idx + 1>>

\* buildRagMeta({ requested, retrievedDocs, ragError })
buildRagMeta(requested, retrievedDocs, ragError) ==
  LET sources ==
        [i \in 1..Len(retrievedDocs) |->
           [id |-> i, title |-> sourceTitle(retrievedDocs[i], i - 1),
            table_name |-> IF retrievedDocs[i].table_name # ""
                             THEN retrievedDocs[i].table_name ELSE Null]]
  IN  [requested |-> requested,
       used |-> requested /\ Len(sources) > 0,
       error |-> IF ragError # "" THEN ragError ELSE Null,
       sourceCount |-> Len(sources),
       sources |-> sources]

\* a data turn has gathered the user's context; the request's useRag is any
\* JSON value
RagInit ==
  /\ qSql = <<>> /\ qScope = <<>> /\ qOut = Pending /\ upd = NoUpdate
  /\ conversations = EarlierConversations
  /\ messages = EarlierMessages
  /\ sql_queries = <<>>
  /\ token_usage = EarlierTokenUsage
  /\ query_logs = <<>>
  /\ pc = "idle" /\ req = NoRequest /\ loc = NoLocals /\ stream = NoStream
  /\ asks = 0 /\ llmCalls = 0 /\ llmUsage = 0 /\ dbSent = <<>> /\ reads = {}
  /\ \E u \in UseRagValues :
       rag = [NoRag EXCEPT !.pc = "retrieveRAGContext", !.useRag = u,
                           !.requested = useRagBool(u)]
  /\ tbl = NoTable
  /\ sdb = NoSchemaCalls
  /\ qa = NoPairsCall
  /\ cv = NoTurns
  /\ chartCall = NoChartCall

\* const { retrievedDocs, ragSourcesText, ragError } =
\*   await retrieveRAGContext({ tenant, question, useRag: useRagBool });
\* what it throws reaches the handler's catch
RagRetrieve ==
  /\ rag.pc = "retrieveRAGContext"
  /\ \E outcome \in VectorOutcomes :
       \E r \in {retrieveRAGContext(rag.requested, outcome)} :
         /\ ~r.called => outcome = [threw |-> FALSE, message |-> "", docs |-> <<>>]
         /\ rag' = [rag EXCEPT
                      !.pc = IF r.threw THEN "returned" ELSE "buildRagMeta",
                      !.calls = IF r.called THEN @ + 1 ELSE @,
                      !.thrown = IF r.called /\ outcome.threw
                                   THEN outcome.message ELSE Null,
                      !.retrievedDocs = r.retrievedDocs,
                      !.ragError = r.ragError]
         /\ stream' = IF r.threw
                        THEN streamError(stream, "INTERNAL_SERVER_ERROR")
                        ELSE emitStatus(stream, 50)
  /\ UNCHANGED <<notRag, dbvars, pc, req, loc, asks,
                 llmCalls, llmUsage, dbSent, reads>>

\* const ragMeta = buildRagMeta({ requested: useRagBool, retrievedDocs,
\* ragError }), which buildAnswerPayload puts in answerPayload.rag
RagBuildMeta ==
  /\ rag.pc = "buildRagMeta"
  /\ rag' = [rag EXCEPT
               !.pc = "sendFinal",
               !.meta = buildRagMeta(rag.requested, rag.retrievedDocs,
                                     rag.ragError)]
  /\ stream' = emitStatus(stream, 92)
  /\ UNCHANGED <<notRag, dbvars, pc, req, loc, asks,
                 llmCalls, llmUsage, dbSent, reads>>

\* emitStatus("Done.", 100); closeWith("final", { .., answerPayload })
RagSendFinal ==
  /\ rag.pc = "sendFinal"
  /\ rag' = [rag EXCEPT !.pc = "returned"]
  /\ stream' = sendFinal(stream)
  /\ UNCHANGED <<notRag, dbvars, pc, req, loc, asks,
                 llmCalls, llmUsage, dbSent, reads>>

RagNext ==
  \/ RagRetrieve
  \/ RagBuildMeta
  \/ RagSendFinal

RagSpec == RagInit /\ [][RagNext]_vars

\* ------------------------------------------------------------------------
\* buildTable on its own, over result sets and caps
\* ------------------------------------------------------------------------

\* the largest result set and the largest cap of the table
MaxResultRows == 3
MaxCap == 3

\* the rows a statement can return
ResultRows == { "north", "south" }
ResultSets == UNION { [1..n -> ResultRows] : n \in 0..MaxResultRows }

\* min of two numbers
Min(a, b) == IF a < b THEN a ELSE b

\* buildTable that counts a result set of exactly maxRows rows as truncated
buildTableInclusive(rows, maxRows, csvThreshold, csvOutcome) ==
  LET fullRowCount == Len(rows)
      truncated == fullRowCount >= maxRows
  IN  [table |-> [rows |-> IF truncated THEN SubSeq(rows, 1, Min(maxRows, Len(rows)))
                           ELSE rows,
                  rowCount |-> fullRowCount,
                  truncated |-> truncated],
       downloads |-> IF fullRowCount >= csvThreshold /\ csvOutcome = "ok"
                       THEN 1 ELSE 0]

\* buildTable({ fields, rows, convId, maxRows, csvThreshold }): rows.slice(0,
\* maxRows) when the result has more rows than maxRows; a CSV download from
\* csvThreshold rows on, none when building it throws
buildTable(rows, maxRows, csvThreshold, csvOutcome) ==
  LET fullRowCount == Len(rows)
      truncated == fullRowCount > maxRows
  IN  [table |-> [rows |-> IF truncated THEN SubSeq(rows, 1, maxRows) ELSE rows,
                  rowCount |-> fullRowCount,
                  truncated |-> truncated],
       downloads |-> IF fullRowCount >= csvThreshold /\ csvOutcome = "ok"
                       THEN 1 ELSE 0]

\* a result set and a cap; the CSV threshold is one above the cap, as the
\* handler's constants are
TableInit ==
  /\ qSql = <<>> /\ qScope = <<>> /\ qOut = Pending /\ upd = NoUpdate
  /\ rag = NoRag
  /\ conversations = <<>> /\ messages = <<>> /\ sql_queries = <<>>
  /\ token_usage = <<>> /\ query_logs = <<>>
  /\ pc = "idle" /\ req = NoRequest /\ loc = NoLocals /\ stream = NoStream
  /\ asks = 0 /\ llmCalls = 0 /\ llmUsage = 0 /\ dbSent = <<>> /\ reads = {}
  /\ \E rows \in ResultSets, maxRows \in 0..MaxCap :
       tbl = [NoTable EXCEPT !.pc = "call", !.rows = rows,
                             !.maxRows = maxRows,
                             !.csvThreshold = maxRows + 1]
  /\ sdb = NoSchemaCalls
  /\ qa = NoPairsCall
  /\ cv = NoTurns
  /\ chartCall = NoChartCall

\* const { table, downloads } = buildTable({ .. })
BuildTable ==
  /\ tbl.pc = "call"
  /\ \E csvOutcome \in Outcomes :
       \E r \in {buildTable(tbl.rows, tbl.maxRows, tbl.csvThreshold, csvOutcome)} :
         /\ csvOutcome = "throw" => Len(tbl.rows) >= tbl.csvThreshold
         /\ tbl' = [tbl EXCEPT !.pc = "returned", !.table = r.table,
                               !.downloads = r.downloads]
  /\ UNCHANGED <<notTbl, dbvars, hvars>>

TableNext == BuildTable

TableSpec == TableInit /\ [][TableNext]_vars

\* ------------------------------------------------------------------------
\* getDataDbSchema called by turns of several tenants in one process
\* ------------------------------------------------------------------------

\* calls of getDataDbSchema followed, and turns that can be inside it at once
MaxSchemaCalls == 3
SchemaTurns == 2

TablePos == <<"p","o","s">>
TableCrm == <<"c","r","m">>

\* the tenants' rows as far as the data database goes: data_db_name and
\* table_list, a comma-separated text
TenantDataDb(tenantId) ==
  IF tenantId = 1
    THEN [id |-> 1, data_db_name |-> "retail_one",
          table_list |-> TablePos \o <<",", " ">> \o TableCrm]
    ELSE [id |-> 2, data_db_name |-> "retail_two",
          table_list |-> TablePos \o <<",">>]

\* the tables each data database holds
allTables(database) ==
  IF database = "retail_one" THEN <<TablePos, TableCrm>>
  ELSE IF database = "retail_two" THEN <<TablePos>>
  ELSE <<>>

\* String.prototype.split(","), from position i on, cur being the piece read
RECURSIVE splitFrom(_, _, _)
splitFrom(s, i, cur) ==
  IF i > Len(s) THEN <<cur>>
  ELSE IF s[i] = "," THEN <<cur>> \o splitFrom(s, i + 1, <<>>)
  ELSE splitFrom(s, i + 1, Append(cur, s[i]))

\* parseTableList(tableList): split(","), trim each name, drop the empty ones
parseTableList(tableList) ==
  IF tableList = <<>> THEN <<>>
  ELSE LET pieces == splitFrom(tableList, 1, <<>>)
           names == [k \in 1..Len(pieces) |-> trim(pieces[k])]
       IN  SelectSeq(names, LAMBDA n : n # <<>>)

Contains(seq, x) == \E k \in 1..Len(seq) : seq[k] = x

\* getSqlDb(tenant): if (!sqlDbPromise) sqlDbPromise =
\* SqlDatabase.fromDataSourceParams({ the tenant's connection, includesTables:
\* parseTableList(tenant.table_list) }); return sqlDbPromise
getSqlDb(promise, tenant, connect) ==
  IF ~promise.made
    THEN [made |-> TRUE, database |-> tenant.data_db_name,
          includesTables |-> parseTableList(tenant.table_list),
          rejected |-> connect = "throw"]
    ELSE promise

NoSchemaText == [threw |-> FALSE, database |-> "", tables |-> <<>>]

\* db.getTableInfo(targetTables) of the library: it throws when a target is
\* not a table of the database behind db, and otherwise describes the targets
\* as the database behind db has them
getTableInfo(db, targetTables) ==
  IF \E k \in 1..Len(targetTables) : ~Contains(allTables(db.database), targetTables[k])
    THEN [threw |-> TRUE, database |-> "", tables |-> <<>>]
    ELSE [threw |-> FALSE, database |-> db.database,
          tables |-> SelectSeq(allTables(db.database),
                               LAMBDA t : Contains(targetTables, t))]

\* a turn that is not inside getDataDbSchema
NoSchemaTurn ==
  [pc |-> "idle", tenant |-> 0, db |-> NoSqlDb, text |-> NoSchemaText]

SchemaInit ==
  /\ qSql = <<>> /\ qScope = <<>> /\ qOut = Pending /\ upd = NoUpdate
  /\ rag = NoRag /\ tbl = NoTable
  /\ conversations = <<>> /\ messages = <<>> /\ sql_queries = <<>>
  /\ token_usage = <<>> /\ query_logs = <<>>
  /\ pc = "idle" /\ req = NoRequest /\ loc = NoLocals /\ stream = NoStream
  /\ asks = 0 /\ llmCalls = 0 /\ llmUsage = 0 /\ dbSent = <<>> /\ reads = {}
  /\ sdb = [NoSchemaCalls EXCEPT !.turns = [s \in 1..SchemaTurns |-> NoSchemaTurn]]
  /\ qa = NoPairsCall
  /\ cv = NoTurns
  /\ chartCall = NoChartCall

\* const schemaText = await getDataDbSchema(tenant), in a turn of an active
\* tenant
SchemaCall(s) ==
  /\ sdb.turns[s].pc = "idle"
  /\ sdb.started < MaxSchemaCalls
  /\ \E t \in { r.id : r \in { x \in TenantRows : x.is_active = 1 } } :
       sdb' = [sdb EXCEPT !.started = @ + 1,
                          !.turns[s] = [NoSchemaTurn EXCEPT !.pc = "getSqlDb",
                                                            !.tenant = t]]
  /\ UNCHANGED <<notSdb, dbvars, hvars>>

\* const db = await getSqlDb(tenant): the turn goes on with what
\* sqlDbPromise resolves to, or throws what it was rejected with
GetSqlDb(s) ==
  /\ sdb.turns[s].pc = "getSqlDb"
  /\ \E connect \in Outcomes :
       \E p \in {getSqlDb(sdb.sqlDbPromise, TenantDataDb(sdb.turns[s].tenant), connect)} :
         /\ (connect = "throw") => p.rejected
         /\ sdb' = [sdb EXCEPT
                      !.sqlDbPromise = p,
                      !.turns[s].db = p,
                      !.turns[s].pc = IF p.rejected THEN "threw" ELSE "getTableInfo"]
  /\ UNCHANGED <<notSdb, dbvars, hvars>>

\* const schema = await db.getTableInfo(parseTableList(tenant.table_list));
\* return schema
GetTableInfo(s) ==
  /\ sdb.turns[s].pc = "getTableInfo"
  /\ \E r \in {getTableInfo(sdb.turns[s].db,
                            parseTableList(TenantDataDb(sdb.turns[s].tenant).table_list))} :
       sdb' = [sdb EXCEPT !.turns[s].text = r,
                          !.turns[s].pc = IF r.threw THEN "threw" ELSE "returned"]
  /\ UNCHANGED <<notSdb, dbvars, hvars>>

\* the turn goes on with the schema text, or ends in the handler's catch
SchemaDone(s) ==
  /\ sdb.turns[s].pc \in {"returned", "threw"}
  /\ sdb' = [sdb EXCEPT !.turns[s] = NoSchemaTurn]
  /\ UNCHANGED <<notSdb, dbvars, hvars>>

SchemaNext ==
  \/ \E s \in 1..SchemaTurns : SchemaCall(s)
  \/ \E s \in 1..SchemaTurns : GetSqlDb(s)
  \/ \E s \in 1..SchemaTurns : GetTableInfo(s)
  \/ \E s \in 1..SchemaTurns : SchemaDone(s)

SchemaSpec == SchemaInit /\ [][SchemaNext]_vars

\* ------------------------------------------------------------------------
\* extractLastQAPairs on its own, over chronological message lists
\* ------------------------------------------------------------------------

\* the longest message list followed
MaxMessages == 4

\* content of a message: empty, or a text
Contents == { "", "text" }

\* the message lists: role and content of each message; at is the place of
\* the message in the list, kept to tell two messages of one content apart
MessageLists ==
  UNION { [1..n -> [role : {"user", "assistant"}, content : Contents]] :
            n \in 0..MaxMessages }

\* !last.answer: null and "" both count as no answer
isFalsy(answer) == answer = Null \/ answer = ""

\* the loop of extractLastQAPairs from message i on: a user message pushes
\* { question, answer: null } and the oldest pair is shifted out beyond
\* maxPairs; an assistant message sets the answer of the last pair if it has
\* none. q and a are the places of the messages a pair was made of.
RECURSIVE extractFrom(_, _, _, _)
extractFrom(msgs, i, pairs, maxPairs) ==
  IF i > Len(msgs) THEN pairs
  ELSE IF msgs[i].role = "user"
    THEN LET pushed == Append(pairs, [question |-> msgs[i].content,
                                      answer |-> Null, q |-> i, a |-> 0])
         IN  extractFrom(msgs, i + 1,
                         IF Len(pushed) > maxPairs THEN Tail(pushed) ELSE pushed,
                         maxPairs)
  ELSE IF msgs[i].role = "assistant" /\ Len(pairs) > 0
    THEN LET last == pairs[Len(pairs)] IN
           extractFrom(msgs, i + 1,
                       IF isFalsy(last.answer)
                         THEN [pairs EXCEPT ![Len(pairs)] =
                                 [last EXCEPT !.answer = msgs[i].content, !.a = i]]
                         ELSE pairs,
                       maxPairs)
  ELSE extractFrom(msgs, i + 1, pairs, maxPairs)

\* extractLastQAPairs(messages, maxPairs = 2)
extractLastQAPairs(msgs, maxPairs) ==
  IF Len(msgs) = 0 THEN <<>> ELSE extractFrom(msgs, 1, <<>>, maxPairs)

PairsInit ==
  /\ qSql = <<>> /\ qScope = <<>> /\ qOut = Pending /\ upd = NoUpdate
  /\ rag = NoRag /\ tbl = NoTable /\ sdb = NoSchemaCalls
  /\ conversations = <<>> /\ messages = <<>> /\ sql_queries = <<>>
  /\ token_usage = <<>> /\ query_logs = <<>>
  /\ pc = "idle" /\ req = NoRequest /\ loc = NoLocals /\ stream = NoStream
  /\ asks = 0 /\ llmCalls = 0 /\ llmUsage = 0 /\ dbSent = <<>> /\ reads = {}
  /\ \E msgs \in MessageLists :
       qa = [NoPairsCall EXCEPT !.pc = "call", !.messages = msgs]
  /\ cv = NoTurns
  /\ chartCall = NoChartCall

\* const qaPairs = extractLastQAPairs(priorMessages, 2)
ExtractLastQAPairs ==
  /\ qa.pc = "call"
  /\ qa' = [qa EXCEPT !.pc = "returned",
                      !.pairs = extractLastQAPairs(qa.messages, 2)]
  /\ UNCHANGED <<notQa, dbvars, hvars>>

PairsNext == ExtractLastQAPairs

PairsSpec == PairsInit /\ [][PairsNext]_vars

\* ------------------------------------------------------------------------
\* Data turns of one user running at once on one conversation: the user
\* message, the recent Q/A context, the assistant message
\* ------------------------------------------------------------------------

\* asks followed, and asks that can run at once
MaxTurns == 3
TurnsAtOnce == 2

\* the tenant and the user of the conversation the asks are made on
SharedTenant == EarlierConversations[cv.convId].tenant_id
SharedUser == EarlierConversations[cv.convId].user_id

\* an ask that is not running
NoTurn ==
  [pc |-> "idle", userMessageId |-> 0, read |-> FALSE, removed |-> 0,
   questions |-> <<>>, messageId |-> 0, messageCount |-> 0]

TurnsInit ==
  /\ qSql = <<>> /\ qScope = <<>> /\ qOut = Pending /\ upd = NoUpdate
  /\ rag = NoRag /\ tbl = NoTable /\ sdb = NoSchemaCalls /\ qa = NoPairsCall
  /\ conversations = EarlierConversations
  /\ messages = EarlierMessages
  /\ sql_queries = <<>>
  /\ token_usage = EarlierTokenUsage
  /\ query_logs = <<>>
  /\ pc = "idle" /\ req = NoRequest /\ loc = NoLocals /\ stream = NoStream
  /\ asks = 0 /\ llmCalls = 0 /\ llmUsage = 0 /\ dbSent = <<>> /\ reads = {}
  /\ \E c \in 1..Len(EarlierConversations) :
       cv = [NoTurns EXCEPT !.convId = c,
                            !.turns = [s \in 1..TurnsAtOnce |-> NoTurn]]
  /\ chartCall = NoChartCall

\* ensureConversationAndPersistUserMessage of an ask on the conversation:
\* INSERT INTO messages (.., "user", question.trim())
TurnPersistUserMessage(s) ==
  /\ cv.turns[s].pc = "idle"
  /\ cv.started < MaxTurns
  /\ messages' = Append(messages,
                        [tenant_id |-> SharedTenant,
                         conversation_id |-> cv.convId,
                         role |-> "user", answer_payload |-> NoPayload,
                         ask |-> cv.started + 1])
  /\ cv' = [cv EXCEPT !.started = @ + 1,
                      !.turns[s] = [NoTurn EXCEPT !.pc = "getRecentQAPairs",
                                                  !.userMessageId = Len(messages) + 1]]
  /\ UNCHANGED <<notCv, conversations, sql_queries, token_usage, query_logs, hvars>>

\* the ids extractLastQAPairs' questions come from, for a list of message ids
questionIds(ids) ==
  LET pairs == extractLastQAPairs(
                 [k \in 1..Len(ids) |->
                    [role |-> messages[ids[k]].role, content |-> "text"]], 2)
  IN  [k \in 1..Len(pairs) |-> ids[pairs[k].q]]

\* getRecentQAPairs({ convId, user }): the conversation's messages in order,
\* priorMessages.pop(), extractLastQAPairs(priorMessages, 2); "" when the
\* read throws
TurnGetRecentQAPairs(s) ==
  /\ cv.turns[s].pc = "getRecentQAPairs"
  /\ \E o \in Outcomes :
       IF o = "throw"
         THEN cv' = [cv EXCEPT !.turns[s].pc = "persistAssistantMessage"]
         ELSE \E priorMessages \in {selectMessages(cv.convId, SharedTenant)} :
                cv' = [cv EXCEPT
                         !.turns[s].pc = "persistAssistantMessage",
                         !.turns[s].read = TRUE,
                         !.turns[s].removed =
                            IF Len(priorMessages) > 0
                              THEN priorMessages[Len(priorMessages)] ELSE 0,
                         !.turns[s].questions =
                            IF Len(priorMessages) > 0
                              THEN questionIds(SubSeq(priorMessages, 1,
                                                      Len(priorMessages) - 1))
                              ELSE <<>>]
  /\ UNCHANGED <<notCv, dbvars, hvars>>

\* persistAssistantMessage of the ask: INSERT INTO messages (.., 'assistant', ..)
TurnPersistAssistantMessage(s) ==
  /\ cv.turns[s].pc = "persistAssistantMessage"
  /\ messages' = Append(messages,
                        [tenant_id |-> SharedTenant,
                         conversation_id |-> cv.convId,
                         role |-> "assistant",
                         answer_payload |->
                           buildAnswerPayload(TokensPerCall, 0,
                                              areaChartResult(FALSE)),
                         ask |-> messages[cv.turns[s].userMessageId].ask])
  /\ cv' = [cv EXCEPT !.turns[s].pc = "persistTokenUsage",
                      !.turns[s].messageId = Len(messages) + 1]
  /\ UNCHANGED <<notCv, conversations, sql_queries, token_usage, query_logs, hvars>>

\* persistAssistantMessage of the ask: INSERT INTO token_usage (..,
\* message_id, .., total_tokens), for the message it has inserted
TurnPersistTokenUsage(s) ==
  /\ cv.turns[s].pc = "persistTokenUsage"
  /\ token_usage' =
       Append(token_usage,
              [tenant_id |-> SharedTenant,
               conversation_id |-> cv.convId,
               message_id |-> cv.turns[s].messageId,
               user_id |-> SharedUser,
               total_tokens |-> TokensPerCall,
               ask |-> messages[cv.turns[s].userMessageId].ask])
  /\ cv' = [cv EXCEPT !.turns[s].pc = "updateMessageSummary"]
  /\ UNCHANGED <<notCv, conversations, messages, sql_queries, query_logs, hvars>>

\* updateMessageSummary of the ask: the conversation's messages are read
\* back (a failure ends the ask in the handler's catch), and
\* maybeUpdateConversationSummary returns at once when its gate is shut for
\* their number
TurnUpdateMessageSummary(s) ==
  /\ cv.turns[s].pc = "updateMessageSummary"
  /\ \E o \in Outcomes :
       IF o = "throw"
         THEN cv' = [cv EXCEPT !.turns[s].pc = "returned"]
         ELSE \E rows \in {selectMessages(cv.convId, SharedTenant)} :
                cv' = [cv EXCEPT
                         !.turns[s].messageCount = Len(rows),
                         !.turns[s].pc = IF summaryDue(Len(rows))
                                           THEN "summaryCall" ELSE "returned"]
  /\ UNCHANGED <<notCv, dbvars, hvars>>

\* maybeUpdateConversationSummary of the ask: await formatMessages and
\* await llm.invoke, other asks going on meanwhile
TurnSummaryCall(s) ==
  /\ cv.turns[s].pc = "summaryCall"
  /\ \E u \in SummaryCalls :
       cv' = [cv EXCEPT !.turns[s].pc = IF u = "text" THEN "summaryUpdate"
                                        ELSE "returned"]
  /\ UNCHANGED <<notCv, dbvars, hvars>>

\* maybeUpdateConversationSummary of the ask: UPDATE conversations SET
\* conversation_summary, of the messages read before the call
TurnSummaryUpdate(s) ==
  /\ cv.turns[s].pc = "summaryUpdate"
  /\ \E o \in Outcomes :
       conversations' =
         IF o = "throw" THEN conversations
         ELSE [conversations EXCEPT
                 ![cv.convId].conversation_summary = "updated"]
  /\ cv' = [cv EXCEPT !.turns[s].pc = "returned"]
  /\ UNCHANGED <<notCv, messages, sql_queries, token_usage, query_logs, hvars>>

\* the ask has ended; the user asks again
TurnReturn(s) ==
  /\ cv.turns[s].pc = "returned"
  /\ cv' = [cv EXCEPT !.turns[s] = NoTurn]
  /\ UNCHANGED <<notCv, dbvars, hvars>>

TurnsNext ==
  \/ \E s \in 1..TurnsAtOnce : TurnPersistUserMessage(s)
  \/ \E s \in 1..TurnsAtOnce : TurnGetRecentQAPairs(s)
  \/ \E s \in 1..TurnsAtOnce : TurnPersistAssistantMessage(s)
  \/ \E s \in 1..TurnsAtOnce : TurnPersistTokenUsage(s)
  \/ \E s \in 1..TurnsAtOnce : TurnUpdateMessageSummary(s)
  \/ \E s \in 1..TurnsAtOnce : TurnSummaryCall(s)
  \/ \E s \in 1..TurnsAtOnce : TurnSummaryUpdate(s)
  \/ \E s \in 1..TurnsAtOnce : TurnReturn(s)

TurnsSpec == TurnsInit /\ [][TurnsNext]_vars

\* ------------------------------------------------------------------------
\* buildAreaChart on its own, over result sets and replies of the model
\* ------------------------------------------------------------------------

MAX_CHART_POINTS == 200

\* rows of the short result sets followed
MaxChartRows == 3

\* column names
ColYearmonth == <<"y","e","a","r","m","o","n","t","h">>
ColQualified == <<"m","e","t","r","i","c","s",".","y","e","a","r","m","o","n","t","h">>
ColMonthYear == <<"M","o","n","t","h","-","Y","e","a","r">>
ColMonth == <<"M","o","n","t","h">>
ColStore == <<"s","t","o","r","e">>
ColSales == <<"s","a","l","e","s">>
ColVisits == <<"v","i","s","i","t","s">>
ColRate == <<"r","a","t","e">>
ColScore == <<"s","c","o","r","e">>

\* a value of a row: null, a number, or a string
NullValue == [kind |-> "null", num |-> 0, str |-> <<>>]
NumberValue(n) == [kind |-> "number", num |-> n, str |-> <<>>]
StringValue(s) == [kind |-> "string", num |-> 0, str |-> s]

\* the columns of the result sets followed: a date column and one metric; a
\* date column and two metrics, the one of lower priority first; no date
\* column; a date column found as "Month" and metrics no keyword matches
ChartColumns ==
  { <<ColYearmonth, ColSales>>,
    <<ColYearmonth, ColVisits, ColSales>>,
    <<ColStore, ColSales>>,
    <<ColMonth, ColRate, ColScore>> }

\* the rows followed: the values of the first, second and third column
ChartRows ==
  { << StringValue(<<"2","0","2","4","-","0","2">>), NumberValue(5), NumberValue(7) >>,
    << StringValue(<<"2","0","2","4","-","0","1">>), StringValue(<<"1",",","2","3","4">>), NumberValue(7) >>,
    << StringValue(<<"2","0","2","4","-","0","3">>), StringValue(<<"n","/","a">>), StringValue(<<"n","/","a">>) >>,
    << StringValue(<<" ", " ">>), NumberValue(5), NumberValue(7) >>,
    << NullValue, NumberValue(5), NumberValue(7) >>,
    << StringValue(<<"2","0","2","4","-","0","1">>), NullValue, NumberValue(7) >>,
    << StringValue(<<"2","0","2","4","-","0","4">>), StringValue(<<" ", " ">>), NumberValue(7) >>,
    << StringValue(<<"2","0","2","4","-","0","1">>), StringValue(<<>>), NumberValue(7) >> }

Digits == <<"0","1","2","3","4","5","6","7","8","9">>

\* a result set of one row more than MAX_CHART_POINTS, the dates descending
LongRows ==
  [i \in 1..(MAX_CHART_POINTS + 1) |->
     LET n == MAX_CHART_POINTS + 1 - i IN
       << StringValue(<<"2", Digits[(n \div 100) + 1],
                        Digits[((n \div 10) % 10) + 1], Digits[(n % 10) + 1]>>),
          NumberValue(5), NumberValue(7) >>]

ChartRowLists ==
  UNION { [1..n -> ChartRows] : n \in 0..MaxChartRows } \cup { LongRows }

\* r[key]: undefined, which == null takes for null, when the row has no such
\* column
valueAt(columns, row, key) ==
  IF \E k \in 1..Len(columns) : columns[k] = key
    THEN row[CHOOSE k \in 1..Len(columns) : columns[k] = key]
    ELSE NullValue

\* detectYearMonthKey(columns): <<>> for null
detectYearMonthKey(columns) ==
  IF Contains(columns, ColQualified) THEN ColQualified
  ELSE IF Contains(columns, ColYearmonth) THEN ColYearmonth
  ELSE IF Contains(columns, ColMonthYear) THEN ColMonthYear
  ELSE IF Contains(columns, ColMonth) THEN ColMonth
  ELSE <<>>

\* clampArray(arr, max)
clampArray(arr, max) == IF Len(arr) <= max THEN arr ELSE SubSeq(arr, 1, max)

DigitValue(c) == CHOOSE d \in 0..9 : Digits[d + 1] = c

RECURSIVE digitsValue(_, _)
digitsValue(s, acc) ==
  IF s = <<>> THEN acc ELSE digitsValue(Tail(s), (acc * 10) + DigitValue(Head(s)))

\* Number(text) of a text of digits and spaces: 0 for the empty text, the
\* number for digits, NaN (finite FALSE) otherwise
Number(text) ==
  LET t == trim(text) IN
    IF t = <<>> THEN [finite |-> TRUE, n |-> 0]
    ELSE IF \A k \in 1..Len(t) : \E d \in 1..10 : Digits[d] = t[k]
      THEN [finite |-> TRUE, n |-> digitsValue(t, 0)]
    ELSE [finite |-> FALSE, n |-> 0]

\* Number(v.trim().replace(/,/g, ""))
parseMetric(str) == Number(removeAll(trim(str), <<",">>))

\* the rows of the sample that count for a column, and those that count as
\* numeric
nonNullRows(columns, sample, key) ==
  { i \in 1..Len(sample) :
      LET v == valueAt(columns, sample[i], key) IN
        ~(v.kind = "null" \/ (v.kind = "string" /\ v.str = <<>>)) }
numericRows(columns, sample, key) ==
  { i \in nonNullRows(columns, sample, key) :
      LET v == valueAt(columns, sample[i], key) IN
        \/ v.kind = "number"
        \/ /\ v.kind = "string"
           /\ trim(v.str) # <<>>
           /\ parseMetric(v.str).finite }

\* getNumericCandidateKeys(columns, rows, excludeKey): the columns, but for
\* excludeKey, of which at least 0.6 of the non-null values of the first 50
\* rows are numbers or texts that parse as numbers
getNumericCandidateKeys(columns, rows, excludeKey) ==
  IF Len(columns) = 0 \/ Len(rows) = 0 THEN <<>>
  ELSE LET sample == clampArray(rows, 50) IN
         SelectSeq(columns,
                   LAMBDA key :
                     /\ key # <<>>
                     /\ key # excludeKey
                     /\ nonNullRows(columns, sample, key) # {}
                     /\ 10 * Cardinality(numericRows(columns, sample, key))
                          >= 6 * Cardinality(nonNullRows(columns, sample, key)))

\* what the model's call for the metric did: it threw, its reply was no JSON
\* object, or its reply was an object with this metricKey
AiReplies ==
  [kind : {"threw", "noObject"}, metricKey : {<<>>}]
    \cup [kind : {"object"},
          metricKey : { ColSales, <<" ">> \o ColScore \o <<" ">>, ColYearmonth,
                        ColStore, <<>> }]

\* inferMetricKeyWithAI that takes whatever key the model names
inferMetricKeyWithAITrusting(numericCandidates, reply) ==
  IF reply.kind = "noObject" THEN <<>> ELSE trim(reply.metricKey)

\* inferMetricKeyWithAI, from the model's reply on: String(obj.metricKey ||
\* "").trim(), null (<<>>) unless numericCandidates.includes(metricKey)
inferMetricKeyWithAI(numericCandidates, reply) ==
  LET metricKey == IF reply.kind = "noObject" THEN <<>>
                   ELSE trim(reply.metricKey)
  IN  IF metricKey = <<>> THEN <<>>
      ELSE IF ~Contains(numericCandidates, metricKey) THEN <<>>
      ELSE metricKey

\* the keywords of pickMetricHeuristic, by priority
MetricPriorities ==
  << << <<"R","E","V","E","N","U","E">>,
     <<"S","A","L","E","S">>,
     <<"A","M","O","U","N","T">>,
     <<"T","O","T","A","L">>,
     <<"G","R","O","S","S">>,
     <<"N","E","T">>,
     <<"P","R","O","F","I","T">> >>,
     << <<"C","O","U","N","T">>,
     <<"T","R","A","N","S","A","C","T","I","O","N","S">>,
     <<"O","R","D","E","R","S">>,
     <<"Q","T","Y">>,
     <<"Q","U","A","N","T","I","T","Y">>,
     <<"U","N","I","T","S">> >>,
     << <<"P","O","I","N","T","S">>,
     <<"V","I","S","I","T","S">>,
     <<"M","E","M","B","E","R","S">>,
     <<"C","U","S","T","O","M","E","R","S">> >> >>

\* re.test(String(k)) for the priority p (the expressions ignore case)
matchesPriority(k, p) ==
  \E j \in 1..Len(MetricPriorities[p]) :
    includes(toUpperCase(k), MetricPriorities[p][j])

\* candidateKeys.find(..): the first candidate the priority p matches
firstMatch(candidateKeys, p) ==
  candidateKeys[CHOOSE i \in 1..Len(candidateKeys) :
                  /\ matchesPriority(candidateKeys[i], p)
                  /\ \A j \in 1..(i - 1) : ~matchesPriority(candidateKeys[j], p)]

\* pickMetricHeuristic(candidateKeys)
pickMetricHeuristic(candidateKeys) ==
  IF Len(candidateKeys) = 0 THEN <<>>
  ELSE IF Len(candidateKeys) = 1 THEN candidateKeys[1]
  ELSE IF \E i \in 1..Len(candidateKeys) : matchesPriority(candidateKeys[i], 1)
    THEN firstMatch(candidateKeys, 1)
  ELSE IF \E i \in 1..Len(candidateKeys) : matchesPriority(candidateKeys[i], 2)
    THEN firstMatch(candidateKeys, 2)
  ELSE IF \E i \in 1..Len(candidateKeys) : matchesPriority(candidateKeys[i], 3)
    THEN firstMatch(candidateKeys, 3)
  ELSE candidateKeys[1]

\* String(n) of a natural number
RECURSIVE numberText(_)
numberText(n) ==
  IF n < 10 THEN <<Digits[n + 1]>>
  ELSE Append(numberText(n \div 10), Digits[(n % 10) + 1])

\* normalizeXAxisValue(value) of a null, a number or a string: <<>> for null
normalizeXAxisValue(value) ==
  IF value.kind = "null" THEN <<>>
  ELSE IF value.kind = "number" THEN numberText(value.num)
  ELSE trim(value.str)

\* a row that gives no point
NoPoint == [kept |-> FALSE, x |-> <<>>, y |-> NullValue]

\* the point of a row: none without a date or with a null or "" value; a
\* text that parses becomes its number, any other value is kept as it is
chartPoint(columns, row, dateKey, metricKey) ==
  LET x == normalizeXAxisValue(valueAt(columns, row, dateKey))
      v == valueAt(columns, row, metricKey)
  IN  IF x = <<>> THEN NoPoint
      ELSE IF v.kind = "null" \/ (v.kind = "string" /\ v.str = <<>>) THEN NoPoint
      ELSE IF v.kind = "string" /\ parseMetric(v.str).finite
        THEN [kept |-> TRUE, x |-> x, y |-> NumberValue(parseMetric(v.str).n)]
      ELSE [kept |-> TRUE, x |-> x, y |-> v]

\* the place of a character in the order of the characters of the dates
CharOrder(c) ==
  IF c = " " THEN 0 ELSE IF c = "-" THEN 1
  ELSE IF \E d \in 1..10 : Digits[d] = c THEN 2 + DigitValue(c)
  ELSE 12

\* String(a).localeCompare(String(b)) <= 0 on texts of digits and dashes
RECURSIVE notAfter(_, _)
notAfter(a, b) ==
  IF a = <<>> THEN TRUE
  ELSE IF b = <<>> THEN FALSE
  ELSE IF CharOrder(Head(a)) < CharOrder(Head(b)) THEN TRUE
  ELSE IF CharOrder(Head(a)) > CharOrder(Head(b)) THEN FALSE
  ELSE notAfter(Tail(a), Tail(b))

\* a point put in its place in a sorted list: after the points of its date
\* and of earlier dates
insertPoint(sorted, p) ==
  LET k == Cardinality({ j \in 1..Len(sorted) : notAfter(sorted[j].x, p.x) })
  IN  SubSeq(sorted, 1, k) \o <<p>> \o SubSeq(sorted, k + 1, Len(sorted))

\* the points lo..hi of raw put, in their order, into a sorted list
RECURSIVE insertRange(_, _, _, _)
insertRange(sorted, raw, lo, hi) ==
  IF lo > hi THEN sorted
  ELSE insertPoint(insertRange(sorted, raw, lo, hi - 1), raw[hi])

\* points put into the sorted list at a time
SortBlock == 16

\* raw.slice().sort(compareYearMonth), a stable sort: the first n points,
\* sorted a block after the other
RECURSIVE sortPoints(_, _)
sortPoints(raw, n) ==
  IF n = 0 THEN <<>>
  ELSE LET lo == (((n - 1) \div SortBlock) * SortBlock) + 1
           sorted == sortPoints(raw, lo - 1)
       IN  IF Len(sorted) = lo - 1 THEN insertRange(sorted, raw, lo, n)
           ELSE <<>>

\* buildBasicAreaChartPayload once the metric is picked: the points of the
\* first MAX_CHART_POINTS rows, sorted by date; null when none is left
chartData(columns, rows, dateKey, metricKey) ==
  LET clamped == clampArray(rows, MAX_CHART_POINTS)
      points == [i \in 1..Len(clamped) |->
                   chartPoint(columns, clamped[i], dateKey, metricKey)]
      raw == SelectSeq(points, LAMBDA p : p.kept)
  IN  sortPoints(raw, Len(raw))

ChartInit ==
  /\ qSql = <<>> /\ qScope = <<>> /\ qOut = Pending /\ upd = NoUpdate
  /\ rag = NoRag /\ tbl = NoTable /\ sdb = NoSchemaCalls /\ qa = NoPairsCall
  /\ cv = NoTurns
  /\ conversations = <<>> /\ messages = <<>> /\ sql_queries = <<>>
  /\ token_usage = <<>> /\ query_logs = <<>>
  /\ pc = "idle" /\ req = NoRequest /\ loc = NoLocals /\ stream = NoStream
  /\ asks = 0 /\ llmCalls = 0 /\ llmUsage = 0 /\ dbSent = <<>> /\ reads = {}
  /\ \E columns \in ChartColumns, rows \in ChartRowLists :
       chartCall = [NoChartCall EXCEPT !.pc = "call", !.columns = columns,
                                       !.rows = rows]

\* buildAreaChart, buildBasicAreaChartPayload up to the metric: no chart
\* without a date column or a numeric candidate; otherwise the model is
\* asked, and the heuristic picks when the model gave no candidate or threw
InferMetricKey ==
  /\ chartCall.pc = "call"
  /\ \E dateKey \in {detectYearMonthKey(chartCall.columns)} :
       \E candidates \in {IF dateKey = <<>> THEN <<>>
                          ELSE getNumericCandidateKeys(chartCall.columns,
                                                       chartCall.rows, dateKey)} :
         IF candidates = <<>>
           THEN chartCall' = [chartCall EXCEPT !.pc = "returned",
                                               !.dateKey = dateKey]
           ELSE \E reply \in AiReplies :
                  \E ai \in {IF reply.kind = "threw" THEN <<>>
                             ELSE inferMetricKeyWithAI(candidates, reply)} :
                    chartCall' =
                      [chartCall EXCEPT
                         !.pc = "build",
                         !.dateKey = dateKey,
                         !.numericCandidates = candidates,
                         !.aiCalls = @ + 1,
                         !.reply = reply,
                         !.aiMetricKey = ai,
                         !.metricKey = IF ai # <<>> THEN ai
                                       ELSE pickMetricHeuristic(candidates)]
  /\ UNCHANGED <<notChartCall, dbvars, hvars>>

\* buildBasicAreaChartPayload from the metric on, and buildAreaChart's return
BuildBasicAreaChartPayload ==
  /\ chartCall.pc = "build"
  /\ \E data \in {IF chartCall.metricKey = <<>> THEN <<>>
                  ELSE chartData(chartCall.columns, chartCall.rows,
                                 chartCall.dateKey, chartCall.metricKey)} :
       chartCall' =
         [chartCall EXCEPT
            !.pc = "returned",
            !.chart = IF data = <<>> THEN NoChart
                      ELSE [made |-> TRUE, xKey |-> chartCall.dateKey,
                            yKey |-> chartCall.metricKey, data |-> data]]
  /\ UNCHANGED <<notChartCall, dbvars, hvars>>

ChartNext ==
  \/ InferMetricKey
  \/ BuildBasicAreaChartPayload

ChartSpec == ChartInit /\ [][ChartNext]_vars

\* ------------------------------------------------------------------------
\* Properties
\* ------------------------------------------------------------------------

LastEvent == stream.events[Len(stream.events)]

TerminalEvents ==
  { i \in 1..Len(stream.events) : stream.events[i].event \in {"final", "error"} }

\* the rows an ask wrote in a table
RowsOf(table, a) == { i \in 1..Len(table) : table[i].ask = a }

UserRowsOf(a) == { i \in RowsOf(messages, a) : messages[i].role = "user" }

AssistantRowsOf(a) == { i \in RowsOf(messages, a) : messages[i].role = "assistant" }

\* a table only grows, and its rows stay what they were
AppendOnly(old, new) ==
  Len(new) >= Len(old) /\ SubSeq(new, 1, Len(old)) = old

\* C1, in every state: no ask has more than one user message row; once the
\* first model call of the current ask is made its user message row exists;
\* and from the moment the bootstrap returned the row's id to the end of the
\* turn, through every failure, that row is the one user message row of the ask
C1_UserMessageState ==
  /\ \A a \in 1..asks : Cardinality(UserRowsOf(a)) <= 1
  /\ llmCalls > 0 => Cardinality(UserRowsOf(asks)) = 1
  /\ loc.userMessageId # 0 => UserRowsOf(asks) = {loc.userMessageId}
  /\ pc \in {"requirePost", "requireUserAndTenant", "getTenantContext",
             "validate", "ensureConversation", "persistUserMessage"} => UserRowsOf(asks) = {}

\* C1: the user message row of an ask is inserted exactly once, before the
\* first language-model call, and no later step, failing or not, of this or
\* of a later ask removes or rewrites it.
C1_UserMessageOnceBeforeModel ==
  [](C1_UserMessageState) /\ [][AppendOnly(messages, messages')]_vars

\* an ask that failed after the classifier's model call: the catch block has
\* written INTERNAL_SERVER_ERROR and the user message row is in the table
C1_Witness ==
  /\ pc = "returned"
  /\ llmCalls > 0
  /\ LastEvent.code = "INTERNAL_SERVER_ERROR"
  /\ loc.userMessageId # 0
  /\ messages[loc.userMessageId].role = "user"

GuardCodes ==
  { "SQL_NOT_READ_ONLY", "SQL_COMMENTS_NOT_ALLOWED", "SQL_UNION_NOT_ALLOWED",
    "SQL_LIMIT_REQUIRED" }

WordSelect == <<"S","E","L","E","C","T">>
WordUnion == <<"U","N","I","O","N">>
WordLimit == <<"L","I","M","I","T">>

\* the statement, after whitespace normalization and case folding, does not
\* start with SELECT, or holds a comment marker, or UNION, or no LIMIT
MustBeRejected(sql) ==
  LET s == toUpperCase(normalize(sql))
  IN  \/ ~startsWith(s, WordSelect)
      \/ includes(s, KwDashes) \/ includes(s, KwOpen) \/ includes(s, KwClose)
      \/ includes(s, WordUnion)
      \/ ~includes(s, WordLimit)

\* C2: once the executor has run, a statement that does not start with
\* SELECT, or contains a comment marker, or contains UNION, or has no LIMIT,
\* in any case and with any whitespace, was rejected with one of the guard's
\* error codes; and `select * from t limit 10` was not rejected by the guard.
C2_GuardRejectsUnsafe ==
  qOut # Pending =>
    /\ MustBeRejected(qSql) => qOut.code \in GuardCodes
    /\ qSql = SqlGood => qOut.code \notin GuardCodes

\* a statement with UNION, followed at once by a parenthesis, that the guard
\* let through: it was handed to the tenant database and rows came back
C2_UnionAccepted ==
  /\ qOut # Pending
  /\ includes(toUpperCase(qSql), WordUnion)
  /\ ~qOut.threw
  /\ qOut.sent # <<>>

ScopedPrefix ==
  <<"S","E","L","E","C","T"," ","*"," ","F","R","O","M"," ","("," ">>
ScopedMiddle ==
  <<" ",")"," ","A","S"," ","s","c","o","p","e","d","_","r","e","s","u","l","t",
    " ","W","H","E","R","E"," ","(">>

\* C3: a statement handed to the tenant database is, when the tenant has a
\* scope filter, SELECT * FROM ( <statement> ) AS scoped_result WHERE
\* (<filter>) up to whitespace, the statement standing whole and verbatim in
\* the subquery and the filter outside it; with an empty filter it is the
\* statement unchanged. Only statements the guard accepted are handed over.
C3_ScopeWrapsWholeStatement ==
  qOut.sent # <<>> =>
    /\ assertReadOnly(qSql) = "OK"
    /\ IF qScope # <<>>
         THEN /\ normalize(qOut.sent) =
                   ScopedPrefix \o normalize(qSql) \o ScopedMiddle \o qScope \o <<")">>
              /\ includes(qOut.sent, <<" ">> \o qSql \o <<"\n">>)
         ELSE qOut.sent = qSql

\* a statement ending its WHERE in OR 1=1 was wrapped for a tenant that has a
\* scope filter, and sent
C3_Witness ==
  /\ qOut.sent # <<>>
  /\ qScope = ScopeTenant5
  /\ includes(qSql, <<"O","R"," ","1","=","1">>)
  /\ ~qOut.threw

\* C4: once the executor has run on a statement that holds a second
\* statement after a semicolon, as SELECT * FROM t LIMIT 10; DROP TABLE t
\* does, the executor threw and handed nothing to the tenant database.
C4_StackedStatementRejected ==
  (qOut # Pending /\ includes(qSql, <<";">>)) =>
    qOut.threw /\ qOut.sent = <<>>

\* SELECT * FROM t LIMIT 10; DROP TABLE t passed the guard and was handed,
\* DROP TABLE included, to the tenant database
C4_StackedStatementSent ==
  /\ qSql = SqlSelectUpper \o <<" ">> \o FragLimitStacked
  /\ qOut # Pending
  /\ includes(qOut.sent, <<"D","R","O","P"," ","T","A","B","L","E">>)

\* C5, in every state of a turn: the stream holds at most one final or error
\* event, that event is the last one written, the response is ended once it
\* is there, and nothing else ends the response of a request that reached
\* the handler (requireAuth ends with its 401 the response of one that did
\* not, and that response carries no event)
C5_TerminalState ==
  /\ Cardinality(TerminalEvents) <= 1
  /\ \A i \in TerminalEvents : i = Len(stream.events)
  /\ TerminalEvents # {} => stream.ended
  /\ stream.ended => TerminalEvents # {} \/ pc = "unauthorized"

\* C5, the catch block: it writes to the stream only when the response has
\* not been ended, and what it writes is INTERNAL_SERVER_ERROR
C5_CatchStep ==
  (pc = "catch" /\ stream' # stream) =>
    /\ ~stream.ended
    /\ stream'.events = Append(stream.events,
                               [event |-> "error", code |-> "INTERNAL_SERVER_ERROR",
                                progress |-> 0])

\* C5: every ask stream carries at most one terminal event, it is the last
\* event on the stream, and the outermost handler emits
\* INTERNAL_SERVER_ERROR only when the stream has not been ended.
C5_OneTerminalEventLast ==
  [](C5_TerminalState) /\ [][C5_CatchStep]_vars

\* a data turn that ran to its end: status and progress events, then final
C5_Witness ==
  /\ pc = "returned"
  /\ loc.persistedMessageId # 0
  /\ loc.sqlQueryId # 0
  /\ LastEvent.event = "final"
  /\ Len(stream.events) > 10

\* where the handler is once logFinalSQL has returned and the turn goes on
AfterLogFinalSQL ==
  { "getAnswerText", "logAnswerTelemetry", "buildAnswerPayload",
    "persistAssistantMessage", "persistTokenUsage", "updateMessageSummary",
    "summaryPrompt", "summaryCall", "summaryUpdate", "sendFinal" }

\* where the handler is before logFinalSQL has inserted
BeforeLogFinalSQL ==
  { "requirePost", "requireUserAndTenant", "getTenantContext", "validate",
    "ensureConversation",
    "persistUserMessage", "classify", "classifyDataRequest", "nonDataRespond",
    "nonDataPersistMessage",
    "nonDataPersistUsage", "nonDataFinal", "buildConversationSummary",
    "getUserLongTermMemorySummary", "getRecentQAPairs", "retrieveRAGContext",
    "getDataDbSchema", "convertToSQL", "executeDataSQL", "logFinalSQL" }

\* C6: in a data turn whose SQL execution failed and whose SqlQueryRecord is
\* written, the user message and the record stay committed, no summarization
\* call is made (the classifier's and the translator's are the two calls
\* before the execution), no assistant message, TokenUsageRecord or QueryLog is written
\* for the turn, and the turn ends with the error event SQL_EXECUTION_ERROR.
C6_SqlFailureEndsTurn ==
  (loc.exec.status = "error" /\ loc.sqlQueryId # 0) =>
    /\ UserRowsOf(asks) = {loc.userMessageId}
    /\ RowsOf(sql_queries, asks) = {loc.sqlQueryId}
    /\ llmCalls <= 2
    /\ AssistantRowsOf(asks) = {}
    /\ RowsOf(token_usage, asks) = {}
    /\ RowsOf(query_logs, asks) = {}
    /\ pc = "returned" =>
         LastEvent = [event |-> "error", code |-> "SQL_EXECUTION_ERROR",
                      progress |-> 0]

\* a data turn whose statement the guard rejected ended with the final event,
\* an assistant message, a TokenUsageRecord and a QueryLog
C6_FailedSqlAnswered ==
  /\ pc = "returned"
  /\ loc.exec.status = "error"
  /\ loc.sqlQueryId # 0
  /\ LastEvent.event = "final"
  /\ AssistantRowsOf(asks) # {}
  /\ RowsOf(token_usage, asks) # {}
  /\ RowsOf(query_logs, asks) # {}

\* C7: when the guard rejects the generated statement, nothing is handed to
\* the tenant database in that turn, the execution's status is "error" with
\* the guard's reason as its message, and once logFinalSQL has returned there
\* is a SqlQueryRecord of the turn with that status and that message.
C7_GuardRejectionRecorded ==
  (loc.exec.status # "" /\ assertReadOnly(loc.sql) # "OK") =>
    /\ dbSent = <<>>
    /\ loc.exec.status = "error"
    /\ loc.exec.errorMessage = guardMessage(assertReadOnly(loc.sql))
    /\ pc \in AfterLogFinalSQL => loc.sqlQueryId # 0
    /\ loc.sqlQueryId # 0 =>
         /\ loc.sqlQueryId \in RowsOf(sql_queries, asks)
         /\ sql_queries[loc.sqlQueryId].status = "error"
         /\ sql_queries[loc.sqlQueryId].error_message =
              guardMessage(assertReadOnly(loc.sql))
         /\ sql_queries[loc.sqlQueryId].sql_text = loc.sql

\* SELECT * FROM secrets, with no LIMIT, was rejected and recorded
C7_Witness ==
  /\ loc.sql = SqlNoLimit
  /\ loc.sqlQueryId # 0
  /\ sql_queries[loc.sqlQueryId].status = "error"
  /\ sql_queries[loc.sqlQueryId].error_message = "LIMIT clause is required"
  /\ dbSent = <<>>
  /\ pc = "getAnswerText"

\* C8, in every state: no ask has more than one SqlQueryRecord; an ask that
\* has not reached logFinalSQL has none; and when logFinalSQL has returned
\* and the turn goes on, the ask has exactly the one it returned, with the
\* status of the execution, failed or not
C8_SqlRecordState ==
  /\ \A a \in 1..asks : Cardinality(RowsOf(sql_queries, a)) <= 1
  /\ pc \in AfterLogFinalSQL =>
       /\ RowsOf(sql_queries, asks) = {loc.sqlQueryId}
       /\ sql_queries[loc.sqlQueryId].status = loc.exec.status
       /\ loc.exec.status \in {"success", "error"}
  /\ pc \in BeforeLogFinalSQL => RowsOf(sql_queries, asks) = {}

\* C8: a data turn that reaches the execution step inserts exactly one
\* SqlQueryRecord, whatever the outcome, before anything else is decided, and
\* no step of any turn updates or deletes a SqlQueryRecord.
C8_OneSqlRecordAppendOnly ==
  [](C8_SqlRecordState) /\ [][AppendOnly(sql_queries, sql_queries')]_vars

\* the tenant database threw on a statement the guard accepted, and the
\* record of that execution is in the table
C8_Witness ==
  /\ pc \in AfterLogFinalSQL
  /\ dbSent # <<>>
  /\ loc.exec.status = "error"
  /\ loc.exec.errorMessage = DbErrorMessage
  /\ sql_queries[loc.sqlQueryId].status = "error"

\* C9: every row of conversations, messages and user long-term memory an ask
\* has read, and every message of the list it returns in final, belongs to
\* the tenant of the requesting user.
C9_ReadsWithinTenant ==
  /\ \A r \in reads : r.tenant_id = req.user.tenantId
  /\ \A k \in 1..Len(loc.messages) :
       messages[loc.messages[k]].tenant_id = req.user.tenantId

\* a user who belongs to two tenants finished a data turn in tenant 2: the
\* turn read a conversation summary, a memory row and messages
C9_Witness ==
  /\ pc = "returned"
  /\ req.user.userId = 1 /\ req.user.tenantId = 2
  /\ LastEvent.event = "final"
  /\ Len(loc.messages) > 0
  /\ \E r \in reads : r.table = "user_long_term_memory"
  /\ \E r \in reads : r.table = "messages"
  /\ \E r \in reads : r.table = "conversations"

\* the conversation the request names is not one of the requesting user in
\* the requesting tenant
ForeignConversation ==
  /\ req.conversationId # 0
  /\ \/ req.conversationId > Len(conversations)
     \/ conversations[req.conversationId].user_id # req.user.userId
     \/ conversations[req.conversationId].tenant_id # req.user.tenantId

\* C10: once the bootstrap's lookup has returned for a conversationId that is
\* not the user's in the tenant, the turn has ended with the error
\* CONVERSATION_NOT_FOUND and has written no row, made no model call and sent
\* nothing to the tenant database; and when no conversationId came, the
\* conversation in use was created by this ask for this user and tenant and
\* every message of the ask is in it.
C10_ForeignConversationRefused ==
  /\ (ForeignConversation /\ loc.convId # 0) =>
       /\ pc = "returned"
       /\ LastEvent = [event |-> "error", code |-> "CONVERSATION_NOT_FOUND",
                       progress |-> 0]
       /\ RowsOf(messages, asks) = {}
       /\ RowsOf(conversations, asks) = {}
       /\ RowsOf(sql_queries, asks) = {}
       /\ RowsOf(token_usage, asks) = {}
       /\ RowsOf(query_logs, asks) = {}
       /\ llmCalls = 0
       /\ dbSent = <<>>
  /\ (req.method = "POST" /\ req.conversationId = 0 /\ loc.convId # 0) =>
       /\ RowsOf(conversations, asks) = {loc.convId}
       /\ conversations[loc.convId].user_id = req.user.userId
       /\ conversations[loc.convId].tenant_id = req.user.tenantId
       /\ \A i \in RowsOf(messages, asks) :
            messages[i].conversation_id = loc.convId

\* user 1 asked in tenant 2 for the conversation the same user has in
\* tenant 1, and was refused
C10_Witness ==
  /\ pc = "returned"
  /\ req.user.userId = 1 /\ req.user.tenantId = 2
  /\ req.conversationId = 2
  /\ LastEvent.code = "CONVERSATION_NOT_FOUND"

\* the current ask has written no row, made no model call and sent nothing
\* to the tenant database
NothingDone ==
  /\ RowsOf(conversations, asks) = {}
  /\ RowsOf(messages, asks) = {}
  /\ RowsOf(sql_queries, asks) = {}
  /\ RowsOf(token_usage, asks) = {}
  /\ RowsOf(query_logs, asks) = {}
  /\ llmCalls = 0
  /\ dbSent = <<>>

\* the stream was ended by the error event of this code
EndedWithError(code) ==
  /\ pc = "returned"
  /\ stream.ended
  /\ LastEvent = [event |-> "error", code |-> code, progress |-> 0]

\* what the checks look at, read off the request and the core tables
MethodOk == req.method = "POST"
UserOk == req.authorization = "Bearer valid"
AccessOk ==
  req.user.role = "SYSTEM_ADMIN" \/ <<req.user.userId, req.user.tenantId>> \in UserTenants
TenantOk == \E t \in TenantRows : t.id = req.user.tenantId /\ t.is_active = 1
QuestionOk ==
  /\ req.body # Null
  /\ req.typeofQuestion = "string"
  /\ \E i \in 1..Len(req.question) : req.question[i] \notin {" ", "\t", "\n"}

\* the steps of the checks
GateSteps ==
  {"requireAuth", "requirePost", "requireUserAndTenant", "getTenantContext", "validate"}

\* C11, in every state of a turn: while the checks run nothing is done; a
\* request that fails a check has its stream ended by the error event of the
\* first check it fails, with nothing done, a lookup that threw being a
\* failed check; access is granted and the tenant found only for a member of
\* an active tenant; and whatever was done was done for a request that
\* passes them all
C11_GateState ==
  /\ pc \in GateSteps => NothingDone
  /\ loc.accessGranted => MethodOk /\ UserOk /\ AccessOk
  /\ loc.tenantFound => loc.accessGranted /\ TenantOk
  /\ pc \notin {"idle", "requireAuth"} =>
       /\ ~UserOk => EndedWithError("UNAUTHORIZED") /\ NothingDone
       /\ pc # "requirePost" /\ UserOk =>
            /\ ~MethodOk => EndedWithError("METHOD_NOT_ALLOWED") /\ NothingDone
            /\ pc # "requireUserAndTenant" /\ MethodOk =>
                 /\ ~loc.accessGranted =>
                      EndedWithError("FORBIDDEN") /\ NothingDone
                 /\ pc # "getTenantContext" /\ loc.accessGranted /\ ~loc.tenantFound =>
                      EndedWithError("TENANT_NOT_FOUND") /\ NothingDone
                 /\ pc # "validate" /\ loc.tenantFound /\ ~QuestionOk =>
                      EndedWithError("INVALID_REQUEST") /\ NothingDone
  /\ pc # "idle" /\ ~NothingDone =>
       MethodOk /\ UserOk /\ AccessOk /\ TenantOk /\ QuestionOk
       /\ loc.accessGranted /\ loc.tenantFound

\* C11, every step of the checks leaves the core tables as they were
C11_GateStep ==
  pc \in GateSteps =>
    UNCHANGED <<conversations, messages, sql_queries, token_usage, query_logs>>

\* C11: no persistence write and no model call happens unless the method
\* check, the user and tenant resolution and the question validation have
\* passed; a failure of one of them ends the stream with its error event
\* (METHOD_NOT_ALLOWED, UNAUTHORIZED, FORBIDDEN, TENANT_NOT_FOUND,
\* INVALID_REQUEST) and leaves the persisted state unchanged.
C11_GateBeforeWork ==
  [](C11_GateState) /\ [][C11_GateStep]_vars

\* a POST of a member of an active tenant whose body is the JSON text null,
\* so with no question at all, has left the handler after the first status
\* event: nothing was done, and no INVALID_REQUEST event, nor any other
\* error event, was written
C11_Witness ==
  /\ pc = "rejected"
  /\ MethodOk /\ UserOk /\ AccessOk /\ TenantOk /\ ~QuestionOk
  /\ req.body = Null
  /\ stream.events = <<StatusEvent(2), ProgressEvent(2)>>
  /\ \A i \in 1..Len(stream.events) : stream.events[i].event # "error"
  /\ NothingDone

\* the classifier's reply, trimmed and in upper case, starts with YES / NO
StartsYes(text) == startsWith(toUpperCase(trim(text)), <<"Y","E","S">>)
StartsNo(text) == startsWith(toUpperCase(trim(text)), <<"N","O">>)

\* where the handler is on the non-data path
NonDataPath ==
  { "nonDataRespond", "nonDataPersistMessage", "nonDataPersistUsage",
    "nonDataFinal" }

\* C12, the classifier's model call: a call that throws adds no usage
C12_CallStep ==
  (pc = "classify" /\ pc' = "classifyDataRequest" /\ loc'.classifierCall.threw)
    => llmUsage' = llmUsage

\* C12, the classifier's result and the handler's branch on it
C12_RouteStep ==
  (pc = "classifyDataRequest" /\ pc' # pc) =>
    LET call == loc.classifierCall IN
      /\ loc'.isDataRequest = FALSE => (~call.threw /\ StartsNo(call.text))
      /\ (call.threw \/ (~StartsYes(call.text) /\ ~StartsNo(call.text))) =>
           /\ loc'.isDataRequest = TRUE
           /\ pc' = "buildConversationSummary"
      /\ pc' = "nonDataRespond" <=> loc'.isDataRequest = FALSE

\* C12: isDataRequest resolves to false only when the classifier's reply
\* starts with NO; when the call throws (no usage is added then) or the reply
\* starts with neither YES nor NO it resolves to true and the turn goes into
\* the data path, and the non-data path is only ever entered with false
C12_ClassifierPermissive ==
  /\ [](pc \in NonDataPath => loc.isDataRequest = FALSE)
  /\ [][C12_CallStep /\ C12_RouteStep]_vars

\* C12 witness: the classifier's call threw, it added no usage, and the turn
\* is on the data path
C12_Witness ==
  /\ pc = "buildConversationSummary"
  /\ llmCalls = 1 /\ llmUsage = 0
  /\ loc.isDataRequest = TRUE

\* the token_usage rows an ask wrote for a message
UsageRowsFor(a, messageId) ==
  { i \in RowsOf(token_usage, a) : token_usage[i].message_id = messageId }

\* C13, in every state of a turn classified as non-data
C13_NonDataState ==
  (pc # "idle" /\ loc.isDataRequest = FALSE) =>
    /\ pc \in NonDataPath \cup {"catch", "returned"}
    /\ RowsOf(sql_queries, asks) = {}
    /\ RowsOf(query_logs, asks) = {}
    /\ dbSent = <<>>
    /\ Cardinality(AssistantRowsOf(asks)) <= 1
    /\ Cardinality(RowsOf(token_usage, asks)) <= 1
    /\ \A i \in AssistantRowsOf(asks) :
         /\ messages[i].answer_payload.status = "non_data"
         /\ messages[i].answer_payload.rowCount = 0
         /\ messages[i].answer_payload.chart = Null
    /\ (stream.ended /\ LastEvent.event = "final") =>
         /\ Cardinality(AssistantRowsOf(asks)) = 1
         /\ Cardinality(RowsOf(token_usage, asks)) = 1
         /\ \A i \in AssistantRowsOf(asks) :
              UsageRowsFor(asks, i) = RowsOf(token_usage, asks)

\* C13, the step that emits final on the non-data path: both rows are there
\* before it, and it writes no table
C13_FinalStep ==
  (pc = "nonDataFinal" /\ pc' = "returned") =>
    /\ Cardinality(AssistantRowsOf(asks)) = 1
    /\ Cardinality(RowsOf(token_usage, asks)) = 1
    /\ UNCHANGED dbvars

\* C13: a turn classified as non-data inserts exactly one assistant message
\* (payload status non_data, empty table, null chart) and exactly one
\* TokenUsageRecord and then emits final, also when the model call of the
\* reply fails or returns empty; it inserts no SqlQueryRecord and no QueryLog
\* and sends no SQL to the data database.
C13_NonDataTurn ==
  [](C13_NonDataState) /\ [][C13_FinalStep]_vars

\* C13 witness: a non-data turn ended with final although the model call of
\* the reply threw (the usage kept for the reply is zero)
C13_Witness ==
  /\ pc = "returned"
  /\ loc.isDataRequest = FALSE
  /\ loc.usage = 0
  /\ stream.ended /\ LastEvent.event = "final"
  /\ Cardinality(AssistantRowsOf(asks)) = 1

\* the turn ran to its end: final is written and the handler has returned
TurnCompleted ==
  pc = "returned" /\ stream.ended /\ LastEvent.event = "final"

\* C14: the token totals recorded for a completed turn, in its
\* TokenUsageRecord and in answerPayload.meta.tokens of its assistant
\* message, equal the sum of the usages of every model call of the turn
\* (classification, translation, summarization and chart inference on the
\* data path, classification and the reply on the non-data path), so they
\* are not zero when the classifier's call consumed tokens.
C14_TotalsEqualSum ==
  TurnCompleted =>
    /\ \A i \in RowsOf(token_usage, asks) : token_usage[i].total_tokens = llmUsage
    /\ \A i \in AssistantRowsOf(asks) : messages[i].answer_payload.tokens = llmUsage

\* C14, what the handler does: a completed non-data turn whose classifier
\* call consumed tokens is recorded with a total of zero
C14_ClassifierTokensLost ==
  /\ TurnCompleted
  /\ loc.isDataRequest = FALSE
  /\ llmUsage = TokensPerCall
  /\ \E i \in RowsOf(token_usage, asks) : token_usage[i].total_tokens = 0
  /\ \E i \in AssistantRowsOf(asks) : messages[i].answer_payload.tokens = 0

\* the totals stored for the message applySummaryUsageUpdate was called for
StoredPayloadTokens == messages[upd.messageId].answer_payload.tokens
StoredUsageTokens == token_usage[upd.tokenUsageId].total_tokens

\* C15: once applySummaryUsageUpdate is over, however it ended, the
\* TokenUsageRecord and answerPayload.meta.tokens of the assistant message
\* hold equal totals, and when the summary refresh added usage and both writes
\* were made they hold the new total.
C15_TotalsStayEqual ==
  /\ upd.pc \in {"returned", "threw"} => StoredPayloadTokens = StoredUsageTokens
  /\ (upd.pc = "returned" /\ hasUsage(upd.summaryUsage)) =>
       StoredPayloadTokens = upd.totalUsage

\* C15, what applySummaryUsageUpdate does: the payload is rewritten, the
\* UPDATE of token_usage throws, and the two totals differ from then on
C15_PayloadRewrittenAlone ==
  /\ upd.pc = "threw"
  /\ StoredPayloadTokens = upd.totalUsage
  /\ StoredUsageTokens # upd.totalUsage

\* C16: once a turn has ended, an assistant message of that turn exists if
\* and only if exactly one TokenUsageRecord that references its id exists:
\* the two are persisted as one unit, the message first.
C16_MessageAndUsageTogether ==
  pc \in {"returned", "idle"} =>
    \A a \in 1..asks :
      /\ \A i \in AssistantRowsOf(a) : Cardinality(UsageRowsFor(a, i)) = 1
      /\ \A j \in RowsOf(token_usage, a) :
           token_usage[j].message_id \in AssistantRowsOf(a)

\* C16, what the handler does: INSERT INTO token_usage threw after the
\* assistant message was inserted, and the turn ended with the message alone
C16_MessageWithoutUsage ==
  /\ pc = "returned"
  /\ stream.ended /\ LastEvent.code = "INTERNAL_SERVER_ERROR"
  /\ AssistantRowsOf(asks) # {}
  /\ RowsOf(token_usage, asks) = {}

\* the messages of a conversation
MessagesIn(c) == { i \in 1..Len(messages) : messages[i].conversation_id = c }

\* the ids of the messages updateMessageSummary read back
MessageIdsRead == { loc.messages[k] : k \in 1..Len(loc.messages) }

\* C17, a step that changes the summary of a conversation: it is the UPDATE
\* of updateMessageSummary, the conversation is the turn's, and the messages
\* read back, the assistant message of the turn among them, are at least
\* MIN_MESSAGES_FOR_SUMMARY and a multiple of the interval in number
C17_SummaryStep ==
  \A c \in 1..Len(conversations) :
    conversations'[c].conversation_summary # conversations[c].conversation_summary
      => /\ pc = "summaryUpdate"
         /\ c = loc.convId
         /\ AssistantRowsOf(asks) # {}
         /\ loc.persistedMessageId \in MessageIdsRead
         /\ Len(loc.messages) >= MIN_MESSAGES_FOR_SUMMARY
         /\ Len(loc.messages) % SUMMARY_MESSAGE_INTERVAL = 0

\* C17: the conversation summary is written only by the summary maintainer
\* and only in a turn where the conversation's message count, read after the
\* assistant message was inserted, is at least MIN_MESSAGES_FOR_SUMMARY and a
\* multiple of SUMMARY_MESSAGE_INTERVAL; no other step changes it.
C17_SummaryOnlyWhenDue ==
  [][C17_SummaryStep]_vars

\* C17 witness: the turn that brought conversation 2 to
\* SUMMARY_MESSAGE_INTERVAL messages refreshed its summary
C17_Witness ==
  /\ pc = "sendFinal"
  /\ loc.convId = 2
  /\ Cardinality(MessagesIn(2)) = SUMMARY_MESSAGE_INTERVAL
  /\ conversations[2].conversation_summary = "updated"

\* the stream is ended and its last event is final, with the answerPayload
\* built, or a structured error
TerminalWritten ==
  /\ stream.ended
  /\ stream.events # <<>>
  /\ \/ /\ LastEvent.event = "final"
        /\ loc.answerPayload.status \in {"complete", "non_data"}
     \/ /\ LastEvent.event = "error"
        /\ LastEvent.code # ""

\* the handler is left: it returned, or its promise was rejected
HandlerLeft == pc \in {"returned", "rejected"}

\* C18: every ask whose calls each return or throw eventually writes a
\* terminal event, final with the answerPayload or a structured error, and
\* ends the stream; no path of the handler ends or abandons the stream
\* without one.
C18_EveryAskEnds ==
  /\ [](HandlerLeft => TerminalWritten)
  /\ [](pc = "requirePost" => <>(HandlerLeft /\ TerminalWritten))

\* an ask whose body is the JSON text null has left the handler with the
\* stream open: the first status and progress events are all that was
\* written, no final and no error, and the response is not ended
C18_Witness ==
  /\ pc = "rejected"
  /\ loc.tenantFound
  /\ ~stream.ended
  /\ TerminalEvents = {}
  /\ ~TerminalWritten
  /\ LastEvent = ProgressEvent(2)

\* the positions of the progress events on the stream
ProgressEvents ==
  { i \in 1..Len(stream.events) : stream.events[i].event = "progress" }

\* C19: within one turn the progress values of successive progress events
\* never decrease, on the data path, the non-data path and every error path,
\* and every progress value lies in 0..100.
C19_ProgressMonotone ==
  /\ \A i \in ProgressEvents :
       stream.events[i].progress >= 0 /\ stream.events[i].progress <= 100
  /\ \A i, j \in ProgressEvents :
       i < j => stream.events[i].progress <= stream.events[j].progress

\* C19 witness: a data turn failed after several progress events, the last
\* of them below 100
C19_Witness ==
  /\ pc = "returned"
  /\ LastEvent.event = "error"
  /\ Cardinality(ProgressEvents) >= 5
  /\ \A i \in ProgressEvents : stream.events[i].progress < 100

\* where the handler is while it gathers context: the conversation summary,
\* the user's long-term memory, the recent question and answer pairs, RAG
ContextFetches ==
  { "buildConversationSummary", "getUserLongTermMemorySummary",
    "getRecentQAPairs", "retrieveRAGContext" }

\* C20, a step of a context sub-fetch: whether it failed or not, the turn
\* goes on to the next sub-fetch or to SQL generation
C20_FetchStep ==
  pc \in ContextFetches => pc' \in ContextFetches \cup {"getDataDbSchema"}

\* C20: a failure of any one of the four context sub-fetches never aborts
\* the turn: the failed block is treated as empty and the turn continues to
\* SQL generation.
C20_ContextFailureContinues ==
  [][C20_FetchStep]_vars

\* C20, what the handler does: the read of the long-term memory threw and
\* the turn ended with INTERNAL_SERVER_ERROR right after progress 25
C20_MemoryFailureAborted ==
  /\ pc = "returned"
  /\ loc.isDataRequest = TRUE
  /\ llmCalls = 1
  /\ LastEvent.code = "INTERNAL_SERVER_ERROR"
  /\ stream.events[Len(stream.events) - 1] = ProgressEvent(25)

\* ------------------------------------------------------------------------
\* C21
\* ------------------------------------------------------------------------

\* C21: when RAG is requested and the vector store throws, the turn still
\* ends with a final event whose payload has rag.requested true, rag.used
\* false, rag.error set from the error's message and sourceCount 0; when RAG
\* is not requested the vector store is never called; rag.used is true only
\* if RAG was requested and at least one document was retrieved.
C21_RagFailureContained ==
  /\ ~useRagBool(rag.useRag) => rag.calls = 0
  /\ rag.pc = "returned" =>
       /\ stream.ended
       /\ LastEvent.event = "final"
  /\ (rag.pc = "returned" /\ rag.thrown # Null) =>
       /\ rag.meta.requested
       /\ ~rag.meta.used
       /\ rag.meta.error # Null
       /\ rag.meta.error = ragErrorOf(rag.thrown)
       /\ rag.meta.sourceCount = 0
       /\ rag.meta.sources = <<>>
  /\ rag.meta.used =>
       /\ useRagBool(rag.useRag)
       /\ Len(rag.retrievedDocs) > 0
       /\ rag.meta.sourceCount = Len(rag.retrievedDocs)

\* a turn that asked for RAG, whose vector store threw, has sent its final
\* event
C21_Witness ==
  /\ rag.pc = "returned"
  /\ rag.requested
  /\ rag.calls = 1
  /\ rag.thrown = "connect ECONNREFUSED"
  /\ rag.meta.error = "connect ECONNREFUSED"
  /\ LastEvent.event = "final"

\* ------------------------------------------------------------------------
\* C22
\* ------------------------------------------------------------------------

\* C22: QueryLog and QuerySource rows are written only after the turn's
\* assistant message and TokenUsageRecord are committed, one QueryLog per
\* completed data turn (none when its insert failed, which is dropped) and
\* none for a turn that did not complete.
C22_TelemetryAfterCommit ==
  /\ \A a \in 1..asks :
       RowsOf(query_logs, a) # {} =>
         /\ AssistantRowsOf(a) # {}
         /\ RowsOf(token_usage, a) # {}
  /\ \A a \in 1..asks : Cardinality(RowsOf(query_logs, a)) <= 1
  /\ (pc = "returned" /\ ~TurnCompleted) => RowsOf(query_logs, asks) = {}

\* C22, what the handler does: logAnswerTelemetry ran before
\* persistAssistantMessage, whose INSERT INTO messages threw, and the turn
\* ended in an error with its QueryLog written and no answer persisted
C22_LogWithoutAnswer ==
  /\ pc = "returned"
  /\ stream.ended /\ LastEvent.code = "INTERNAL_SERVER_ERROR"
  /\ Cardinality(RowsOf(query_logs, asks)) = 1
  /\ AssistantRowsOf(asks) = {}
  /\ RowsOf(token_usage, asks) = {}

\* ------------------------------------------------------------------------
\* C23
\* ------------------------------------------------------------------------

\* C23: for a result set of N rows and a cap C, the table block has
\* rowCount = N, truncated = (N > C) and exactly min(N, C) rows, which are
\* the first min(N, C) rows of the result in their order.
C23_TableBlock ==
  tbl.pc = "returned" =>
    LET N == Len(tbl.rows)
        C == tbl.maxRows
    IN  /\ tbl.table.rowCount = N
        /\ tbl.table.truncated = (N > C)
        /\ Len(tbl.table.rows) = Min(N, C)
        /\ \A i \in 1..Min(N, C) : tbl.table.rows[i] = tbl.rows[i]

\* a result of three rows under a cap of two was cut to its first two rows
C23_Witness ==
  /\ tbl.pc = "returned"
  /\ tbl.rows = <<"north", "south", "north">>
  /\ tbl.maxRows = 2
  /\ tbl.table.truncated
  /\ tbl.table.rows = <<"north", "south">>

\* ------------------------------------------------------------------------
\* C24
\* ------------------------------------------------------------------------

\* C24: the schema text getDataDbSchema gives a turn is the schema of the
\* requesting tenant's own database and table list, in whatever order turns
\* of different tenants call it in one process.
C24_SchemaOfOwnTenant ==
  \A s \in 1..SchemaTurns :
    sdb.turns[s].pc = "returned" =>
      LET tenant == TenantDataDb(sdb.turns[s].tenant) IN
        /\ sdb.turns[s].text.database = tenant.data_db_name
        /\ sdb.turns[s].text.tables = parseTableList(tenant.table_list)

\* C24, what getSqlDb does: a turn of tenant 2 got the description of tables
\* of tenant 1's database, whose turn had made sqlDbPromise before
C24_ForeignSchema ==
  \E s \in 1..SchemaTurns :
    /\ sdb.turns[s].pc = "returned"
    /\ sdb.turns[s].tenant = 2
    /\ sdb.turns[s].text.database = "retail_one"
    /\ sdb.turns[s].text.tables = <<TablePos>>

\* ------------------------------------------------------------------------
\* C28
\* ------------------------------------------------------------------------

\* the places of the user messages of a list, in order
UserPlaces(msgs) ==
  SelectSeq([i \in 1..Len(msgs) |-> i], LAMBDA i : msgs[i].role = "user")

\* the last n elements of a sequence (all of it when it is shorter)
LastN(seq, n) ==
  IF Len(seq) <= n THEN seq ELSE SubSeq(seq, Len(seq) - n + 1, Len(seq))

\* the assistant messages that follow the user message at q before the next
\* user message
AnswersTo(msgs, q) ==
  { i \in (q + 1)..Len(msgs) :
      /\ msgs[i].role = "assistant"
      /\ \A j \in (q + 1)..i : msgs[j].role # "user" }

\* C28: the extraction returns at most 2 pairs, the most recent ones in
\* chronological order; each pair is opened by a user message and closed by
\* the first assistant message that follows it before the next user message;
\* an assistant message with no open unanswered pair is ignored.
C28_LastPairs ==
  qa.pc = "returned" =>
    LET msgs == qa.messages
        pairs == qa.pairs
    IN  /\ Len(pairs) <= 2
        /\ [k \in 1..Len(pairs) |-> pairs[k].q] = LastN(UserPlaces(msgs), 2)
        /\ \A k \in 1..Len(pairs) :
             LET p == pairs[k] IN
               /\ p.question = msgs[p.q].content
               /\ IF AnswersTo(msgs, p.q) = {}
                    THEN p.a = 0 /\ p.answer = Null
                    ELSE /\ p.a \in AnswersTo(msgs, p.q)
                         /\ \A i \in AnswersTo(msgs, p.q) : p.a <= i
                         /\ p.answer = msgs[p.a].content

\* C28, what the loop does: the first assistant message after the question
\* has an empty content, which !last.answer takes for no answer, and the pair
\* is closed by the assistant message after it
C28_ClosedBySecondAnswer ==
  /\ qa.pc = "returned"
  /\ qa.messages = << [role |-> "user", content |-> "text"],
                      [role |-> "assistant", content |-> ""],
                      [role |-> "assistant", content |-> "text"] >>
  /\ qa.pairs = << [question |-> "text", answer |-> "text", q |-> 1, a |-> 3] >>

\* ------------------------------------------------------------------------
\* C25
\* ------------------------------------------------------------------------

\* C25: when asks on one conversation interleave, the recent Q/A context
\* built for a turn never holds the turn's own just-inserted question: the
\* message removed before pairing is the turn's own user message, not a
\* message another turn inserted after it.
C25_OwnQuestionRemoved ==
  \A s \in 1..TurnsAtOnce :
    cv.turns[s].read =>
      /\ cv.turns[s].removed = cv.turns[s].userMessageId
      /\ \A k \in 1..Len(cv.turns[s].questions) :
           cv.turns[s].questions[k] # cv.turns[s].userMessageId

\* C25, what getRecentQAPairs does: another ask inserted its user message
\* after this turn's, pop() removed that one, and this turn's own question
\* is the last question of its recent Q/A context
C25_OwnQuestionInContext ==
  \E s \in 1..TurnsAtOnce :
    /\ cv.turns[s].read
    /\ cv.turns[s].removed > cv.turns[s].userMessageId
    /\ messages[cv.turns[s].removed].role = "user"
    /\ Len(cv.turns[s].questions) > 0
    /\ cv.turns[s].questions[Len(cv.turns[s].questions)] = cv.turns[s].userMessageId

\* ------------------------------------------------------------------------
\* C26
\* ------------------------------------------------------------------------

\* the messages a conversation had before the current ask
MessagesBefore(c) == { i \in MessagesIn(c) : messages[i].ask < asks }

\* with the current ask the conversation's message count reached or passed
\* a multiple of the interval
ReachedInterval(c) ==
  \E k \in 1..Len(messages) :
    /\ Cardinality(MessagesBefore(c)) < k * SUMMARY_MESSAGE_INTERVAL
    /\ k * SUMMARY_MESSAGE_INTERVAL <= Cardinality(MessagesIn(c))

\* the current turn ran the maintainer's recompute: only a data turn calls
\* updateMessageSummary, which recomputes when the gate is open for the
\* messages it read back
RecomputeRan == loc.isDataRequest /\ summaryDue(Len(loc.messages))

\* C26: each time the message count of a conversation reaches or passes a
\* multiple of 12, the summary maintainer runs its recompute in the turn that
\* reached it; turns that add one message and non-data turns, which add two,
\* cannot make the conversation skip a refresh.
C26_RefreshNotSkipped ==
  (TurnCompleted /\ ReachedInterval(loc.convId)) => RecomputeRan

\* C26, what the handler does: a non-data turn brought the conversation to
\* 12 messages and ended without the maintainer being called, so the next
\* two-message turn passes the multiple with no refresh
C26_RefreshSkipped ==
  /\ TurnCompleted
  /\ ~loc.isDataRequest
  /\ Cardinality(MessagesBefore(loc.convId)) = SUMMARY_MESSAGE_INTERVAL - 2
  /\ Cardinality(MessagesIn(loc.convId)) = SUMMARY_MESSAGE_INTERVAL
  /\ conversations[loc.convId].conversation_summary = ""
  /\ llmCalls = 2

\* ------------------------------------------------------------------------
\* C27
\* ------------------------------------------------------------------------

\* C27, in the state a completed turn ends in: the answerPayload the handler
\* holds, which closeWith sent, is the answer_payload of the assistant
\* message row of the turn, and that row is among the messages read back for
\* the event (both are written with JSON.stringify of the one object)
C27_PayloadState ==
  TurnCompleted =>
    /\ AssistantRowsOf(asks) = {loc.persistedMessageId}
    /\ messages[loc.persistedMessageId].answer_payload = loc.answerPayload
    /\ loc.answerPayload # NoPayload
    /\ Contains(loc.messages, loc.persistedMessageId)

\* C27, once applySummaryUsageUpdate has returned from a rewrite: the
\* answerPayload it returns, which is the one to send, is the answer_payload
\* stored on the message it was called for and the answer_payload of that
\* message's entry in the messages it returns
C27_RewriteState ==
  (upd.pc = "returned" /\ hasUsage(upd.summaryUsage)) =>
    /\ upd.answerPayload # NoPayload
    /\ messages[upd.messageId].answer_payload = upd.answerPayload
    /\ \A k \in 1..Len(upd.messages) :
         upd.messages[k].id = upd.messageId =>
           upd.messages[k].answer_payload = upd.answerPayload

\* C27, every step: a stored answer_payload is rewritten by the UPDATE of
\* applySummaryUsageUpdate alone, on the message it was called for and to
\* the payload it returns, so never in a turn of the handler; and the step
\* that sends final sends the payload that was stored
C27_PayloadStep ==
  /\ \A i \in 1..Len(messages) :
       messages'[i].answer_payload # messages[i].answer_payload =>
         /\ upd.pc = "updateMessages"
         /\ i = upd.messageId
         /\ messages'[i].answer_payload = upd'.answerPayload
  /\ (pc \in {"sendFinal", "nonDataFinal"} /\ pc' = "returned"
        /\ stream'.ended /\ stream'.events[Len(stream'.events)].event = "final") =>
       /\ loc'.answerPayload = loc.answerPayload
       /\ messages'[loc'.persistedMessageId].answer_payload = loc'.answerPayload

\* C27: the answerPayload sent in the final event is identical to the
\* answer_payload stored on the turn's assistant message row and to that
\* message's entry in the messages of the event, on the data path, on the
\* non-data path, and after a summary-usage rewrite.
C27_PayloadSentIsStored ==
  [](C27_PayloadState /\ C27_RewriteState) /\ [][C27_PayloadStep]_vars

\* C27 witness: applySummaryUsageUpdate has returned from the rewrite of a
\* data answer with a chart: the stored answer_payload and the entry of the
\* message in the list both hold the payload returned, with the new total
C27_Witness ==
  /\ upd.pc = "returned"
  /\ upd.summaryUsage = MaxSummaryTokens
  /\ upd.answerPayload = buildAnswerPayload(upd.totalUsage, RowsReturned,
                                            areaChartResult(TRUE))
  /\ messages[upd.messageId].answer_payload = upd.answerPayload
  /\ \E k \in 1..Len(upd.messages) :
       /\ upd.messages[k].id = upd.messageId
       /\ upd.messages[k].answer_payload = upd.answerPayload
  /\ token_usage[upd.tokenUsageId].total_tokens = upd.totalUsage

\* buildAreaChart always returns; it returns no chart when the columns hold
\* no date key or the rows give no numeric candidate; otherwise the metric
\* key is one of the numeric candidates and never the date key, and it is
\* the single candidate when there is exactly one
C29_ChartState ==
  /\ chartCall.pc \in {"none", "call", "build", "returned"}
  /\ chartCall.chart.made =>
       /\ chartCall.pc = "returned"
       /\ chartCall.dateKey # <<>>
       /\ chartCall.chart.xKey = chartCall.dateKey
       /\ chartCall.chart.yKey = chartCall.metricKey
  /\ (chartCall.pc = "returned" /\ chartCall.aiCalls = 0) =>
       /\ ~chartCall.chart.made
       /\ \/ detectYearMonthKey(chartCall.columns) = <<>>
          \/ getNumericCandidateKeys(chartCall.columns, chartCall.rows,
                                     chartCall.dateKey) = <<>>
  /\ chartCall.aiCalls > 0 =>
       /\ chartCall.dateKey = detectYearMonthKey(chartCall.columns)
       /\ chartCall.dateKey # <<>>
       /\ chartCall.numericCandidates =
            getNumericCandidateKeys(chartCall.columns, chartCall.rows,
                                    chartCall.dateKey)
       /\ chartCall.numericCandidates # <<>>
       /\ Contains(chartCall.numericCandidates, chartCall.metricKey)
       /\ Contains(chartCall.columns, chartCall.metricKey)
       /\ chartCall.metricKey # chartCall.dateKey
       /\ (Len(chartCall.numericCandidates) = 1) =>
            chartCall.metricKey = chartCall.numericCandidates[1]

\* C29 as the claim has it: chart inference never fails the turn, yields no
\* chart when no date column or no numeric candidate is found, and otherwise
\* its metric key is one of the numeric candidates and never the date
\* column; the model's answer is used only when it equals a candidate
\* verbatim, and otherwise, or when the call fails, the keyword-priority
\* heuristic picks, the single candidate being picked when there is one.
C29_AnswerUsedVerbatim ==
  /\ C29_ChartState
  /\ chartCall.aiCalls > 0 =>
       IF /\ chartCall.reply.kind = "object"
          /\ Contains(chartCall.numericCandidates, chartCall.reply.metricKey)
         THEN chartCall.metricKey = chartCall.reply.metricKey
         ELSE chartCall.metricKey =
                pickMetricHeuristic(chartCall.numericCandidates)

\* C29: buildAreaChart always returns; it returns no chart when the columns
\* hold no date key or the rows give no numeric candidate; otherwise the
\* metric key is one of the numeric candidates and never the date key: the
\* model's answer is used only when, with the white space around it trimmed
\* off, it equals a candidate, and otherwise, or when the call threw, the
\* keyword-priority heuristic picks, the single candidate being picked when
\* there is exactly one.
C29_MetricAmongCandidates ==
  /\ C29_ChartState
  /\ chartCall.aiCalls > 0 =>
       IF /\ chartCall.reply.kind = "object"
          /\ Contains(chartCall.numericCandidates,
                      trim(chartCall.reply.metricKey))
         THEN chartCall.metricKey = trim(chartCall.reply.metricKey)
         ELSE chartCall.metricKey =
                pickMetricHeuristic(chartCall.numericCandidates)

\* The model named " score ", which is no candidate verbatim, while rate and
\* score were the candidates: the chart was built on score, the answer
\* trimmed, and not on rate, which the heuristic picks of the two.
C29_Witness ==
  /\ chartCall.pc = "returned"
  /\ chartCall.chart.made
  /\ chartCall.reply.kind = "object"
  /\ chartCall.reply.metricKey = <<" ">> \o ColScore \o <<" ">>
  /\ chartCall.numericCandidates = <<ColRate, ColScore>>
  /\ ~Contains(chartCall.numericCandidates, chartCall.reply.metricKey)
  /\ pickMetricHeuristic(chartCall.numericCandidates) = ColRate
  /\ chartCall.chart.yKey = ColScore

\* C30: every point of a chart's series has a non-empty date and a number as
\* its metric value; the series has at most MAX_CHART_POINTS points and its
\* dates ascend.
C30_NumericSortedSeries ==
  chartCall.chart.made =>
    LET data == chartCall.chart.data IN
      /\ Len(data) <= MAX_CHART_POINTS
      /\ \A i \in 1..Len(data) :
           /\ data[i].x # <<>>
           /\ data[i].y.kind = "number"
      /\ \A i \in 1..(Len(data) - 1) : notAfter(data[i].x, data[i + 1].x)

\* A chart was returned whose series holds, beside two numbers, the text
\* "n/a" as the metric value of a point: the text did not parse and the row
\* was kept with it.
C30_TextAsMetricValue ==
  /\ chartCall.pc = "returned"
  /\ chartCall.chart.made
  /\ Len(chartCall.chart.data) = 3
  /\ \E i \in 1..3 :
       /\ chartCall.chart.data[i].y.kind = "string"
       /\ chartCall.chart.data[i].y.str = <<"n", "/", "a">>
  /\ \E i \in 1..3 : chartCall.chart.data[i].y = NumberValue(1234)

============================================================================
